---- MODULE Spec2Model ----
(***************************************************************************)
(* Model of the METAR/TAF parser of src/src/metaf.h.                        *)
(*                                                                         *)
(* A report is a sequence of whitespace-delimited tokens; a token is a      *)
(* sequence of one-character strings.  The group recognizers are operators  *)
(* on tokens, the report-level syntax checker (GenericParser::Status) is a  *)
(* record [state, reportType, error], and the loop of                       *)
(* GenericParser::parseInternal is the state machine Spec.                  *)
(***************************************************************************)
EXTENDS Integers, Sequences, FiniteSets, TLC

VARIABLES
    pc,             \* position in parseInternal: "loop", "parse", "done"
    extendedResult, \* parameter of parseInternal
    tokens,         \* the tokens the iterator has yielded so far
    iterAtEnd,      \* iter == std::sregex_token_iterator() when the loop was left
    reportEnd,      \* local reportEnd
    status,         \* local Status status
    groupString,    \* local groupString of the current iteration
    reportPart,     \* local reportPart of the current iteration
    result,         \* local Result result
    extresult,      \* local ExtendedResult extresult
    parseLog,       \* history: one entry per call of GenericGroupParser::parse
                    \* (token index, report part, group, status before and after)
    combines,       \* history: number of combines performed
    args,           \* the arguments of a function of the library called on its own
    ret             \* what that function returned

vars == <<pc, extendedResult, tokens, iterAtEnd, reportEnd, status, groupString,
          reportPart, result, extresult, parseLog, combines, args, ret>>

(***************************************************************************)
(* Bounds of the model.                                                    *)
(***************************************************************************)
MaxTokens == 5

(***************************************************************************)
(* std::optional<T>: the empty sequence or a one-element sequence.          *)
(***************************************************************************)
None == <<>>
Some(v) == <<v>>
HasValue(o) == Len(o) = 1
Value(o) == o[1]
ValueOr(o, d) == IF Len(o) = 1 THEN o[1] ELSE d

(***************************************************************************)
(* Characters and strings.                                                 *)
(***************************************************************************)
Digits == {"0", "1", "2", "3", "4", "5", "6", "7", "8", "9"}
UpperCase == {"A", "B", "C", "D", "E", "F", "G", "H", "I", "J", "K", "L", "M",
              "N", "O", "P", "Q", "R", "S", "T", "U", "V", "W", "X", "Y", "Z"}

DigitValue(c) ==
    CASE c = "0" -> 0 [] c = "1" -> 1 [] c = "2" -> 2 [] c = "3" -> 3
      [] c = "4" -> 4 [] c = "5" -> 5 [] c = "6" -> 6 [] c = "7" -> 7
      [] c = "8" -> 8 [] c = "9" -> 9

\* s.substr(pos, len) with a 0-based pos
substr(s, pos, len) ==
    IF pos >= Len(s) \/ len <= 0 THEN <<>>
    ELSE SubSeq(s, pos + 1, IF pos + len > Len(s) THEN Len(s) ELSE pos + len)

\* every character of s[pos .. pos+len-1] (0-based) is in the set cs
AllIn(s, pos, len, cs) ==
    /\ pos + len <= Len(s)
    /\ \A i \in (pos + 1)..(pos + len) : s[i] \in cs

\* s starts with the string p at 0-based position pos
HasAt(s, pos, p) == substr(s, pos, Len(p)) = p /\ Len(p) > 0

\* half of the width of unsigned int: 2^16
uintHalf == 65536

\* value = value * decimalRadix + (*c - '0') in unsigned int, that is modulo
\* 2^32: the value is kept as <<high half, low half>> so that no step leaves
\* the integers a run can hold
RECURSIVE UintValue(_, _, _, _, _)
UintValue(str, startPos, digits, high, low) ==
    IF digits = 0 THEN high * uintHalf + low
    ELSE UintValue(str, startPos + 1, digits - 1,
                   (high * 10 + (low * 10 + DigitValue(str[startPos + 1])) \div uintHalf)
                        % uintHalf,
                   (low * 10 + DigitValue(str[startPos + 1])) % uintHalf)

\* the unsigned int the loop of strToUint ends with
DecimalValue(str, startPos, digits) == UintValue(str, startPos, digits, 0, 0)

strToUint(str, startPos, digits) ==
    IF Len(str) = 0 \/ digits = 0 \/ startPos + digits > Len(str) THEN None
    ELSE IF ~AllIn(str, startPos, digits, Digits) THEN None
    ELSE Some(DecimalValue(str, startPos, digits))

(***************************************************************************)
(* Runway                                                                  *)
(***************************************************************************)
allRunwaysNumber == 88
messageRepetitionNumber == 99
maxRunwayNumber == 36

designatorFromChar(c) ==
    CASE c = "R" -> Some("RIGHT")
      [] c = "C" -> Some("CENTER")
      [] c = "L" -> Some("LEFT")
      [] OTHER -> None

Runway_fromString(s, enableRwy) ==
    IF Len(s) < 3 THEN None
    ELSE IF s[1] # "R" THEN None
    ELSE LET numPos == IF enableRwy /\ s[2] = "W" /\ s[3] = "Y" THEN 3 ELSE 1
             rwyNum == strToUint(s, numPos, 2)
             dsgPos == numPos + 2
         IN  IF ~HasValue(rwyNum) THEN None
             ELSE IF Len(s) > dsgPos + 1 THEN None
             ELSE IF Len(s) > dsgPos
                  THEN LET designator == designatorFromChar(s[dsgPos + 1])
                       IN  IF ~HasValue(designator) THEN None
                           ELSE Some([rNumber |-> Value(rwyNum),
                                      rDesignator |-> Value(designator)])
                  ELSE Some([rNumber |-> Value(rwyNum), rDesignator |-> "NONE"])

Runway_isValid(r) ==
    \/ r.rNumber <= maxRunwayNumber
    \/ (r.rNumber = allRunwaysNumber /\ r.rDesignator = "NONE")
    \/ (r.rNumber = messageRepetitionNumber /\ r.rDesignator = "NONE")

Runway_makeAllRunways == [rNumber |-> allRunwaysNumber, rDesignator |-> "NONE"]

\* Runway() = default
Runway_default == [rNumber |-> 0, rDesignator |-> "NONE"]

(***************************************************************************)
(* MetafTime                                                               *)
(***************************************************************************)
maxDay == 31
maxHour == 24
maxMinute == 59

MetafTime_fromStringDDHHMM(s) ==
    IF Len(s) = 4
    THEN LET hour == strToUint(s, 0, 2)
             minute == strToUint(s, 2, 2)
         IN  IF ~HasValue(hour) \/ ~HasValue(minute) THEN None
             ELSE Some([dayValue |-> None, hourValue |-> Value(hour),
                        minuteValue |-> Value(minute)])
    ELSE IF Len(s) = 6
    THEN LET day == strToUint(s, 0, 2)
             hour == strToUint(s, 2, 2)
             minute == strToUint(s, 4, 2)
         IN  IF ~HasValue(day) \/ ~HasValue(hour) \/ ~HasValue(minute) THEN None
             ELSE Some([dayValue |-> day, hourValue |-> Value(hour),
                        minuteValue |-> Value(minute)])
    ELSE None

MetafTime_fromStringDDHH(s) ==
    IF Len(s) # 4 THEN None
    ELSE LET day == strToUint(s, 0, 2)
             hour == strToUint(s, 2, 2)
         IN  IF ~HasValue(day) \/ ~HasValue(hour) THEN None
             ELSE Some([dayValue |-> day, hourValue |-> Value(hour),
                        minuteValue |-> 0])

MetafTime_isValid(t) ==
    LET d == ValueOr(t.dayValue, maxDay)
    IN  /\ ~(d > maxDay \/ d = 0)
        /\ ~(t.hourValue > maxHour)
        /\ ~(t.minuteValue > maxMinute)

(***************************************************************************)
(* enum class ReportPart                                                   *)
(***************************************************************************)
ReportParts == {"UNKNOWN", "HEADER", "METAR", "TAF", "RMK"}

(***************************************************************************)
(* PlainTextGroup                                                          *)
(***************************************************************************)
textMaxLength == 15

\* PlainTextGroup(const std::string &): strncpy of at most textMaxLength chars
PlainTextGroup(s) ==
    [kind |-> "PlainTextGroup", text |-> substr(s, 0, textMaxLength)]

PlainTextGroup_parse(group, part) == Some(PlainTextGroup(group))

PlainTextGroup_isValid(g) == Len(g.text) > 0

PlainTextGroup_combine(g, nextGroup) == None

(***************************************************************************)
(* FixedGroup                                                              *)
(***************************************************************************)
\* The comparisons of FixedGroup::parse in the order of the code:
\* <<report parts of the enclosing if, string compared with, resulting Type>>
FixedGroupRules == <<
    <<{"HEADER"}, <<"M", "E", "T", "A", "R">>, "METAR">>,
    <<{"HEADER"}, <<"S", "P", "E", "C", "I">>, "SPECI">>,
    <<{"HEADER"}, <<"T", "A", "F">>, "TAF">>,
    <<{"HEADER"}, <<"A", "M", "D">>, "AMD">>,
    <<{"HEADER", "METAR"}, <<"C", "O", "R">>, "COR">>,
    <<{"HEADER", "METAR", "TAF"}, <<"N", "I", "L">>, "NIL">>,
    <<{"HEADER", "METAR", "TAF"}, <<"C", "N", "L">>, "CNL">>,
    <<{"METAR"}, <<"A", "U", "T", "O">>, "AUTO">>,
    <<{"METAR"}, <<"S", "N", "O", "C", "L", "O">>, "R_SNOCLO">>,
    <<{"METAR"}, <<"R", "/", "S", "N", "O", "C", "L", "O">>, "R_SNOCLO">>,
    <<{"TAF"}, <<"W", "S", "C", "O", "N", "D", "S">>, "WSCONDS">>,
    <<{"METAR", "TAF"}, <<"C", "A", "V", "O", "K">>, "CAVOK">>,
    <<{"METAR", "TAF"}, <<"N", "S", "W">>, "NSW">>,
    <<{"METAR", "TAF"}, <<"R", "M", "K">>, "RMK">>,
    <<{"RMK"}, <<"A", "O", "1">>, "AO1">>,
    <<{"RMK"}, <<"A", "O", "2">>, "AO2">>,
    <<{"RMK"}, <<"N", "O", "S", "P", "E", "C", "I">>, "NOSPECI">>,
    <<{"RMK"}, <<"P", "R", "E", "S", "F", "R">>, "PRESFR">>,
    <<{"RMK"}, <<"P", "R", "E", "S", "R", "R">>, "PRESRR">>,
    <<{"RMK"}, <<"R", "V", "R", "N", "O">>, "RVRNO">>,
    <<{"RMK"}, <<"P", "W", "I", "N", "O">>, "PWINO">>,
    <<{"RMK"}, <<"P", "N", "O">>, "PNO">>,
    <<{"RMK"}, <<"F", "Z", "R", "A", "N", "O">>, "FZRANO">>,
    <<{"RMK"}, <<"T", "S", "N", "O">>, "TSNO">>,
    <<{"RMK"}, <<"S", "L", "P", "N", "O">>, "SLPNO">>,
    <<ReportParts, <<"$">>, "MAINTENANCE_INDICATOR">> >>

FixedGroup_parse(group, part) ==
    LET hits == {i \in 1..Len(FixedGroupRules) :
                    /\ part \in FixedGroupRules[i][1]
                    /\ group = FixedGroupRules[i][2]}
        first == CHOOSE i \in hits : \A j \in hits : i <= j
    IN  IF hits = {} THEN None
        ELSE Some([kind |-> "FixedGroup", t |-> FixedGroupRules[first][3]])

FixedGroup_combine(g, nextGroup) == None

(***************************************************************************)
(* LocationGroup                                                           *)
(***************************************************************************)
locationLength == 4

\* LocationGroup::parse that recognises a location in every report part
LocationGroup_parse_anyPart(group, part) ==
    IF ~(/\ Len(group) = 4
         /\ group[1] \in UpperCase
         /\ AllIn(group, 1, 3, UpperCase \cup Digits)) THEN None
    ELSE Some([kind |-> "LocationGroup",
               location |-> substr(group, 0, locationLength)])

LocationGroup_parse(group, part) ==
    IF part # "HEADER" THEN None
    \* std::regex("[A-Z][A-Z0-9]{3}")
    ELSE IF ~(/\ Len(group) = 4
              /\ group[1] \in UpperCase
              /\ AllIn(group, 1, 3, UpperCase \cup Digits)) THEN None
    ELSE Some([kind |-> "LocationGroup",
               location |-> substr(group, 0, locationLength)])

LocationGroup_combine(g, nextGroup) == None

(***************************************************************************)
(* ReportTimeGroup                                                         *)
(***************************************************************************)
ReportTimeGroup_parse(group, part) ==
    IF part # "HEADER" THEN None
    \* std::regex("\\d\\d\\d\\d\\d\\dZ")
    ELSE IF ~(Len(group) = 7 /\ AllIn(group, 0, 6, Digits) /\ group[7] = "Z")
    THEN None
    ELSE LET tm == MetafTime_fromStringDDHHMM(substr(group, 0, 6))
         IN  IF ~HasValue(tm) THEN None
             ELSE IF ~HasValue(Value(tm).dayValue) THEN None
             ELSE Some([kind |-> "ReportTimeGroup", t |-> Value(tm)])

ReportTimeGroup_isValid(g) == MetafTime_isValid(g.t) /\ HasValue(g.t.dayValue)

ReportTimeGroup_combine(g, nextGroup) == None

(***************************************************************************)
(* TrendGroup                                                              *)
(***************************************************************************)
\* TrendGroup() = default, TrendGroup(Type), TrendGroup(Probability)
TrendGroup_default ==
    [kind |-> "TrendGroup", t |-> "NONE", prob |-> "NONE",
     tFrom |-> None, tTill |-> None, tAt |-> None]
TrendGroup_ofType(type) == [TrendGroup_default EXCEPT !.t = type]
TrendGroup_ofProbability(p) == [TrendGroup_default EXCEPT !.prob = p]

TrendGroup_fromTimeSpan(s) ==
    \* std::regex("(\\d\\d\\d\\d)/(\\d\\d\\d\\d)")
    IF ~(Len(s) = 9 /\ AllIn(s, 0, 4, Digits) /\ s[5] = "/"
            /\ AllIn(s, 5, 4, Digits)) THEN None
    ELSE LET from == MetafTime_fromStringDDHH(substr(s, 0, 4))
             till == MetafTime_fromStringDDHH(substr(s, 5, 4))
         IN  IF ~HasValue(from) \/ ~HasValue(till) THEN None
             ELSE Some([TrendGroup_default EXCEPT
                            !.t = "TIME_SPAN", !.tFrom = from, !.tTill = till])

TrendGroup_fromFm(s) ==
    \* std::regex("FM\\d\\d\\d\\d\\d\\d")
    IF ~(Len(s) = 8 /\ s[1] = "F" /\ s[2] = "M" /\ AllIn(s, 2, 6, Digits))
    THEN None
    ELSE LET time == MetafTime_fromStringDDHHMM(substr(s, 2, 6))
         IN  IF ~HasValue(time) THEN None
             ELSE Some([TrendGroup_default EXCEPT !.t = "FROM", !.tFrom = time])

TrendGroup_fromTrendTime(s) ==
    \* std::regex("([FTA][MLT])(\\d\\d\\d\\d)")
    IF ~(Len(s) = 6 /\ s[1] \in {"F", "T", "A"} /\ s[2] \in {"M", "L", "T"}
            /\ AllIn(s, 2, 4, Digits)) THEN None
    ELSE LET time == MetafTime_fromStringDDHHMM(substr(s, 2, 4))
             type == substr(s, 0, 2)
         IN  IF ~HasValue(time) THEN None
             ELSE IF type = <<"F", "M">>
                  THEN Some([TrendGroup_default EXCEPT !.tFrom = time])
             ELSE IF type = <<"T", "L">>
                  THEN Some([TrendGroup_default EXCEPT !.tTill = time])
             ELSE IF type = <<"A", "T">>
                  THEN Some([TrendGroup_default EXCEPT !.tAt = time])
             ELSE None

TrendGroup_parse(group, part) ==
    IF part \in {"METAR", "TAF"} /\ group = <<"B", "E", "C", "M", "G">>
        THEN Some(TrendGroup_ofType("BECMG"))
    ELSE IF part \in {"METAR", "TAF"} /\ group = <<"T", "E", "M", "P", "O">>
        THEN Some(TrendGroup_ofType("TEMPO"))
    ELSE IF part \in {"METAR", "TAF"} /\ group = <<"I", "N", "T", "E", "R">>
        THEN Some(TrendGroup_ofType("INTER"))
    ELSE IF part = "TAF" /\ group = <<"P", "R", "O", "B", "3", "0">>
        THEN Some(TrendGroup_ofProbability("PROB_30"))
    ELSE IF part = "TAF" /\ group = <<"P", "R", "O", "B", "4", "0">>
        THEN Some(TrendGroup_ofProbability("PROB_40"))
    ELSE IF part = "TAF" /\ HasValue(TrendGroup_fromTimeSpan(group))
        THEN TrendGroup_fromTimeSpan(group)
    ELSE IF part = "TAF" /\ HasValue(TrendGroup_fromFm(group))
        THEN TrendGroup_fromFm(group)
    ELSE IF part = "METAR" /\ group = <<"N", "O", "S", "I", "G">>
        THEN Some(TrendGroup_ofType("NOSIG"))
    ELSE IF part = "METAR" /\ HasValue(TrendGroup_fromTrendTime(group))
        THEN TrendGroup_fromTrendTime(group)
    ELSE IF part \in {"HEADER", "TAF"} /\ HasValue(TrendGroup_fromTimeSpan(group))
        THEN TrendGroup_fromTimeSpan(group)
    ELSE None

TrendGroup_isProbabilityGroup(g) ==
    /\ g.t = "NONE"
    /\ g.prob # "NONE"
    /\ ~(HasValue(g.tFrom) \/ HasValue(g.tTill))
    /\ ~HasValue(g.tAt)

TrendGroup_isTrendTypeGroup(g) ==
    /\ g.t \in {"BECMG", "TEMPO", "INTER"}
    /\ g.prob = "NONE"
    /\ ~(HasValue(g.tFrom) \/ HasValue(g.tTill))
    /\ ~HasValue(g.tAt)

TrendGroup_isTrendTimeGroup(g) ==
    /\ g.t = "NONE"
    /\ g.prob = "NONE"
    /\ ~(~HasValue(g.tFrom) /\ ~HasValue(g.tTill) /\ ~HasValue(g.tAt))
    /\ ~(HasValue(g.tFrom) /\ HasValue(g.tTill))
    /\ ~(HasValue(g.tFrom) /\ HasValue(g.tAt))
    /\ ~(HasValue(g.tTill) /\ HasValue(g.tAt))

TrendGroup_isTimeSpanGroup(g) ==
    /\ g.t = "TIME_SPAN"
    /\ g.prob = "NONE"
    /\ ~(~HasValue(g.tFrom) \/ ~HasValue(g.tTill))
    /\ ~HasValue(g.tAt)

\* canCombineTime that lets a time 'at' join a time 'from' or 'till'
TrendGroup_canCombineTime_atJoins(g1, g2) ==
    /\ ~(HasValue(g1.tFrom) /\ HasValue(g2.tFrom))
    /\ ~(HasValue(g1.tTill) /\ HasValue(g2.tTill))
    /\ ~(HasValue(g1.tAt) /\ HasValue(g2.tAt))

TrendGroup_canCombineTime(g1, g2) ==
    /\ ~(HasValue(g1.tFrom) /\ HasValue(g2.tFrom))
    /\ ~(HasValue(g1.tTill) /\ HasValue(g2.tTill))
    /\ ~(HasValue(g1.tAt) /\ HasValue(g2.tAt))
    /\ ~(HasValue(g1.tAt) /\ (HasValue(g2.tFrom) \/ HasValue(g2.tTill)))
    /\ ~(HasValue(g2.tAt) /\ (HasValue(g1.tFrom) \/ HasValue(g1.tTill)))

TrendGroup_combineTime(g, next) ==
    [g EXCEPT !.tFrom = IF ~HasValue(g.tFrom) THEN next.tFrom ELSE g.tFrom,
              !.tTill = IF ~HasValue(g.tTill) THEN next.tTill ELSE g.tTill,
              !.tAt = IF ~HasValue(g.tAt) THEN next.tAt ELSE g.tAt]

\* The four combine helpers return the combined group, or None for false.
\* combineProbAndTrendTypeGroups without the check for TEMPO or INTER
TrendGroup_combineProbAndTrendTypeGroups_anyType(g, next) ==
    IF ~TrendGroup_isProbabilityGroup(g) THEN None
    ELSE IF ~TrendGroup_isTrendTypeGroup(next) THEN None
    ELSE Some([g EXCEPT !.t = next.t])

TrendGroup_combineProbAndTrendTypeGroups(g, next) ==
    IF ~TrendGroup_isProbabilityGroup(g) THEN None
    ELSE IF ~TrendGroup_isTrendTypeGroup(next) THEN None
    ELSE IF next.t # "TEMPO" /\ next.t # "INTER" THEN None
    ELSE Some([g EXCEPT !.t = next.t])

TrendGroup_combineTrendTypeAndTimeGroup(g, next) ==
    IF g.t # "BECMG" /\ g.t # "TEMPO" /\ g.t # "INTER" THEN None
    ELSE IF ~TrendGroup_isTimeSpanGroup(next) /\ ~TrendGroup_isTrendTimeGroup(next)
        THEN None
    ELSE IF ~TrendGroup_canCombineTime(g, next) THEN None
    ELSE Some(TrendGroup_combineTime(g, next))

TrendGroup_combineProbAndTimeSpanGroups(g, next) ==
    IF ~TrendGroup_isProbabilityGroup(g) THEN None
    ELSE IF ~TrendGroup_isTimeSpanGroup(next) THEN None
    ELSE Some([TrendGroup_combineTime(g, next) EXCEPT !.t = "TIME_SPAN"])

TrendGroup_combineIncompleteGroups(g, next) ==
    IF g.t # "NONE" THEN None
    ELSE IF g.prob # "NONE" THEN None
    ELSE IF ~TrendGroup_isTrendTimeGroup(next) THEN None
    ELSE IF ~TrendGroup_canCombineTime(g, next) THEN None
    ELSE Some(TrendGroup_combineTime(g, next))

TrendGroup_combine(g, nextGroup) ==
    IF nextGroup.kind # "TrendGroup" THEN None
    ELSE IF HasValue(TrendGroup_combineProbAndTrendTypeGroups(g, nextGroup))
        THEN TrendGroup_combineProbAndTrendTypeGroups(g, nextGroup)
    ELSE IF HasValue(TrendGroup_combineTrendTypeAndTimeGroup(g, nextGroup))
        THEN TrendGroup_combineTrendTypeAndTimeGroup(g, nextGroup)
    ELSE IF HasValue(TrendGroup_combineProbAndTimeSpanGroups(g, nextGroup))
        THEN TrendGroup_combineProbAndTimeSpanGroups(g, nextGroup)
    ELSE IF HasValue(TrendGroup_combineIncompleteGroups(g, nextGroup))
        THEN TrendGroup_combineIncompleteGroups(g, nextGroup)
    ELSE None

TrendGroup_isValid(g) ==
    /\ ~(HasValue(g.tFrom) /\ ~MetafTime_isValid(Value(g.tFrom)))
    /\ ~(HasValue(g.tTill) /\ ~MetafTime_isValid(Value(g.tTill)))
    /\ ~(HasValue(g.tAt) /\ ~MetafTime_isValid(Value(g.tAt)))
    /\ g.t # "NONE"

(***************************************************************************)
(* Speed                                                                   *)
(***************************************************************************)
\* Speed() = default
Speed_default == [speedValue |-> None, speedUnit |-> "KNOTS"]

Speed_fromString(s, unit) ==
    IF Len(s) = 0 \/ s = <<"/", "/">> THEN Some(Speed_default)
    ELSE IF Len(s) # 2 /\ Len(s) # 3 THEN None
    ELSE IF Len(s) = 3 /\ s[1] = "0" THEN None
    ELSE LET spd == strToUint(s, 0, Len(s))
         IN  IF ~HasValue(spd) THEN None
             ELSE Some([speedValue |-> spd, speedUnit |-> unit])

Speed_unitFromString(s) ==
    IF s = <<"K", "T">> THEN Some("KNOTS")
    ELSE IF s = <<"M", "P", "S">> THEN Some("METERS_PER_SECOND")
    ELSE IF s = <<"K", "M", "H">> THEN Some("KILOMETERS_PER_HOUR")
    ELSE None

(***************************************************************************)
(* Distance                                                                *)
(***************************************************************************)
heightFactor == 100

\* Distance() = default, Distance(Unit), Distance(int, Unit)
Distance_default ==
    [distModifier |-> "NONE", distValueInt |-> None, distValueNum |-> None,
     distValueDen |-> None, distUnit |-> "METERS"]
Distance_ofUnit(u) == [Distance_default EXCEPT !.distUnit = u]
Distance_ofValue(d, u) ==
    [Distance_default EXCEPT !.distValueInt = Some(d), !.distUnit = u]

Distance_isInteger(d) ==
    HasValue(d.distValueInt) /\ ~HasValue(d.distValueNum) /\ ~HasValue(d.distValueDen)
Distance_isFraction(d) ==
    ~HasValue(d.distValueInt) /\ HasValue(d.distValueNum) /\ HasValue(d.distValueDen)
Distance_isReported(d) ==
    HasValue(d.distValueInt) \/ (HasValue(d.distValueNum) /\ HasValue(d.distValueDen))
Distance_isValid(d) ==
    /\ ~(HasValue(d.distValueDen) /\ Value(d.distValueDen) = 0)
    /\ ~(HasValue(d.distValueNum) /\ Value(d.distValueNum) = 0)

Distance_modifierFromChar(c) ==
    IF c = "M" THEN Some("LESS_THAN")
    ELSE IF c = "P" THEN Some("MORE_THAN")
    ELSE None

Distance_fromMeterString(s) ==
    IF Len(s) # 4 THEN None
    ELSE IF s = <<"/", "/", "/", "/">> THEN Some(Distance_ofUnit("METERS"))
    ELSE LET dist == strToUint(s, 0, 4)
         IN  IF ~HasValue(dist) THEN None
             ELSE IF Value(dist) = 9999
                  THEN Some([Distance_ofValue(10000, "METERS") EXCEPT
                                !.distModifier = "MORE_THAN"])
             ELSE Some(Distance_ofValue(Value(dist), "METERS"))

\* s.find('/'): 0-based position of the first slash, -1 for npos
FindSlash(s) ==
    LET ps == {i \in 1..Len(s) : s[i] = "/"}
    IN  IF ps = {} THEN -1 ELSE (CHOOSE i \in ps : \A j \in ps : i <= j) - 1

Distance_fromMileString(s) ==
    IF Len(s) < 3 THEN None
    ELSE IF s = <<"/", "/", "/", "/", "S", "M">>
        THEN Some(Distance_ofUnit("STATUTE_MILES"))
    ELSE IF substr(s, Len(s) - 2, 2) # <<"S", "M">> THEN None
    ELSE
      LET modifier == Distance_modifierFromChar(s[1])
          base == IF HasValue(modifier)
                  THEN [Distance_ofUnit("STATUTE_MILES") EXCEPT
                            !.distModifier = Value(modifier)]
                  ELSE Distance_ofUnit("STATUTE_MILES")
          shift == IF HasValue(modifier) THEN 1 ELSE 0
          slashPos == FindSlash(s)
      IN  IF slashPos = -1
          THEN LET intPos == shift
                   intLength == Len(s) - 2 - shift
                   dist == strToUint(s, intPos, intLength)
               IN  IF intLength <= 0 \/ intLength > 2 THEN None
                   ELSE IF ~HasValue(dist) THEN None
                   ELSE Some([base EXCEPT !.distValueInt = dist])
          ELSE LET numPos == shift
                   numLength == slashPos - shift
                   denPos == slashPos + 1
                   denLength == Len(s) - 2 - denPos
                   distNum == strToUint(s, numPos, numLength)
                   distDen == strToUint(s, denPos, denLength)
               IN  IF numLength < 0 \/ numLength > 2 \/ denLength < 0
                        \/ denLength > 2 \/ denPos < 0 THEN None
                   ELSE IF ~HasValue(distNum) \/ ~HasValue(distDen) THEN None
                   ELSE IF Value(distNum) >= Value(distDen)
                        THEN Some([base EXCEPT
                                !.distValueInt = Some(Value(distNum) \div 10),
                                !.distValueNum = Some(Value(distNum) % 10),
                                !.distValueDen = distDen])
                   ELSE Some([base EXCEPT !.distValueNum = distNum,
                                          !.distValueDen = distDen])

Distance_fromHeightString(s) ==
    IF Len(s) # 3 THEN None
    ELSE IF s = <<"/", "/", "/">> THEN Some(Distance_ofUnit("FEET"))
    ELSE LET h == strToUint(s, 0, 3)
         IN  IF ~HasValue(h) THEN None
             ELSE Some(Distance_ofValue(Value(h) * heightFactor, "FEET"))

Distance_fromRvrString(s, unitFeet) ==
    LET unit == IF unitFeet THEN "FEET" ELSE "METERS"
    IN  IF Len(s) = 4
        THEN IF s = <<"/", "/", "/", "/">> THEN Some(Distance_ofUnit(unit))
             ELSE LET dist == strToUint(s, 0, 4)
                  IN  IF ~HasValue(dist) THEN None
                      ELSE Some(Distance_ofValue(Value(dist), unit))
        ELSE IF Len(s) = 5
        THEN LET modifier == Distance_modifierFromChar(s[1])
                 dist == strToUint(s, 1, 4)
             IN  IF ~HasValue(modifier) THEN None
                 ELSE IF ~HasValue(dist) THEN None
                 ELSE Some([Distance_ofValue(Value(dist), unit) EXCEPT
                                !.distModifier = Value(modifier)])
        ELSE None

\* fromIntegerAndFraction without the comparison of the units
Distance_fromIntegerAndFraction_anyUnit(integer, fraction) ==
    IF \/ ~Distance_isValid(integer)
       \/ ~Distance_isValid(fraction)
       \/ integer.distModifier # "NONE"
       \/ fraction.distModifier # "NONE"
       \/ ~Distance_isInteger(integer)
       \/ ~Distance_isFraction(fraction) THEN None
    ELSE Some([integer EXCEPT !.distValueNum = fraction.distValueNum,
                              !.distValueDen = fraction.distValueDen])

Distance_fromIntegerAndFraction(integer, fraction) ==
    IF \/ ~Distance_isValid(integer)
       \/ ~Distance_isValid(fraction)
       \/ integer.distModifier # "NONE"
       \/ fraction.distModifier # "NONE"
       \/ integer.distUnit # fraction.distUnit
       \/ ~Distance_isInteger(integer)
       \/ ~Distance_isFraction(fraction) THEN None
    ELSE Some([integer EXCEPT !.distValueNum = fraction.distValueNum,
                              !.distValueDen = fraction.distValueDen])

(***************************************************************************)
(* Direction                                                               *)
(***************************************************************************)
maxDegrees == 360

\* Direction() = default
Direction_default == [dirDegrees |-> 0, dirStatus |-> "OMMITTED"]

Direction_isValue(d) == d.dirStatus \in {"VALUE_DEGREES", "VALUE_CARDINAL"}
Direction_isValid(d) == ~(Direction_isValue(d) /\ d.dirDegrees > maxDegrees)
Direction_degrees(d) == IF ~Direction_isValue(d) THEN None ELSE Some(d.dirDegrees)

Direction_fromCardinalString(s) ==
    IF Len(s) = 0 THEN Some(Direction_default)
    ELSE IF s = <<"N", "D", "V">> THEN Some([dirDegrees |-> 0, dirStatus |-> "NDV"])
    ELSE LET cardinalDegrees ==
                 IF s = <<"S", "E">> THEN 135
                 ELSE IF s = <<"S", "W">> THEN 225
                 ELSE IF s = <<"N", "E">> THEN 45
                 ELSE IF s = <<"N", "W">> THEN 315
                 ELSE IF s = <<"E">> THEN 90
                 ELSE IF s = <<"S">> THEN 180
                 ELSE IF s = <<"W">> THEN 270
                 ELSE IF s = <<"N">> THEN 360
                 ELSE 0
         IN  IF cardinalDegrees = 0 THEN None
             ELSE Some([dirDegrees |-> cardinalDegrees,
                        dirStatus |-> "VALUE_CARDINAL"])

Direction_fromDegreesString(s) ==
    IF Len(s) = 0 THEN Some(Direction_default)
    ELSE IF Len(s) # 3 THEN None
    ELSE IF s = <<"/", "/", "/">>
        THEN Some([dirDegrees |-> 0, dirStatus |-> "NOT_REPORTED"])
    ELSE IF s = <<"V", "R", "B">>
        THEN Some([dirDegrees |-> 0, dirStatus |-> "VARIABLE"])
    ELSE IF s[3] # "0" THEN None
    ELSE LET dir == strToUint(s, 0, 3)
         IN  IF ~HasValue(dir) THEN None
             ELSE Some([dirDegrees |-> Value(dir), dirStatus |-> "VALUE_DEGREES"])

(***************************************************************************)
(* Temperature                                                             *)
(***************************************************************************)
Temperature_default == [tempValue |-> None, freezing |-> FALSE]

Temperature_fromString(s) ==
    IF s = <<"/", "/">> THEN Some(Temperature_default)
    ELSE IF Len(s) = 3
    THEN IF s[1] # "M" THEN None
         ELSE LET t == strToUint(s, 1, 2)
              IN  IF ~HasValue(t) THEN None
                  ELSE Some([tempValue |-> Some(0 - Value(t)), freezing |-> TRUE])
    ELSE IF Len(s) = 2
    THEN LET t == strToUint(s, 0, 2)
         IN  IF ~HasValue(t) THEN None
             ELSE Some([tempValue |-> Some(Value(t)), freezing |-> FALSE])
    ELSE None

(***************************************************************************)
(* Pressure: the value is a pair <<numerator, denominator>>                 *)
(***************************************************************************)
Pressure_default == [pressureValue |-> None, pressureUnit |-> "HECTOPASCAL"]

\* inHgDecimalPointShift = 0.01
inHgDecimalPointDivisor == 100

Pressure_fromString(s) ==
    IF Len(s) # 5 THEN None
    ELSE IF s = <<"A", "/", "/", "/", "/">> THEN Some([Pressure_default EXCEPT !.pressureUnit = "INCHES_HG"])
    ELSE IF s = <<"Q", "/", "/", "/", "/">> THEN Some(Pressure_default)
    ELSE LET pr == strToUint(s, 1, 4)
         IN  IF ~HasValue(pr) THEN None
             ELSE CASE s[1] = "A" ->
                        Some([pressureValue |-> Some(<<Value(pr), inHgDecimalPointDivisor>>),
                              pressureUnit |-> "INCHES_HG"])
                    [] s[1] = "Q" ->
                        Some([pressureValue |-> Some(<<Value(pr), 1>>),
                              pressureUnit |-> "HECTOPASCAL"])
                    [] OTHER -> None

Pressure_fromForecastString(s) ==
    IF Len(s) # 10 THEN None
    ELSE IF s[1] # "Q" \/ s[2] # "N" \/ s[3] # "H" THEN None
    ELSE IF s[8] # "I" \/ s[9] # "N" \/ s[10] # "S" THEN None
    ELSE LET pr == strToUint(s, 3, 4)
         IN  IF ~HasValue(pr) THEN None
             ELSE Some([pressureValue |-> Some(<<Value(pr), inHgDecimalPointDivisor>>),
                        pressureUnit |-> "INCHES_HG"])

\* slpDecimalPointShift = 0.1
slpDecimalPointDivisor == 10

Pressure_fromSlpString(s) ==
    IF Len(s) # 6 THEN None
    ELSE IF s[1] # "S" \/ s[2] # "L" \/ s[3] # "P" THEN None
    ELSE LET pr == strToUint(s, 3, 3)
         IN  IF ~HasValue(pr) THEN None
             ELSE LET base == IF Value(pr) < 500 THEN 1000 ELSE 900
                  IN  Some([pressureValue |->
                                Some(<<Value(pr) + base * slpDecimalPointDivisor,
                                       slpDecimalPointDivisor>>),
                            pressureUnit |-> "HECTOPASCAL"])

Pressure_fromQfeString(s) ==
    IF Len(s) # 6 /\ Len(s) # 11 THEN None
    ELSE IF s[1] # "Q" \/ s[2] # "F" \/ s[3] # "E" THEN None
    ELSE LET mmHg == strToUint(s, 3, 3)
         IN  IF ~HasValue(mmHg) THEN None
             ELSE IF Len(s) = 11 /\ (~HasValue(strToUint(s, 7, 4)) \/ s[7] # "/")
             THEN None
             ELSE Some([pressureValue |-> Some(<<Value(mmHg), 1>>),
                        pressureUnit |-> "MM_HG"])

(***************************************************************************)
(* Precipitation: the value is in tenths of a millimetre                    *)
(***************************************************************************)
Precipitation_default == [precipStatus |-> "NOT_REPORTED", precipValue |-> 0]

Precipitation_fromRainfallString(s) ==
    IF s = <<>> \/ s = <<"/", "/", "/", ".", "/">> \/ s = <<"/", "/", ".", "/">> THEN Some(Precipitation_default)
    ELSE IF Len(s) # 4 /\ Len(s) # 5 THEN None
    ELSE IF s[Len(s) - 1] # "." THEN None
    ELSE LET fractPart == strToUint(s, Len(s) - 1, 1)
             intPart == strToUint(s, 0, Len(s) - 2)
         IN  IF ~HasValue(fractPart) THEN None
             ELSE IF ~HasValue(intPart) THEN None
             ELSE Some([precipStatus |-> "REPORTED",
                        precipValue |-> Value(intPart) * 10 + Value(fractPart)])

Precipitation_fromRunwayDeposits(s) ==
    IF Len(s) # 2 THEN None
    ELSE IF s = <<"/", "/">> THEN Some(Precipitation_default)
    ELSE LET dep == strToUint(s, 0, 2)
         IN  IF ~HasValue(dep) THEN None
             ELSE LET v == Value(dep)
                  IN  CASE v = 91 -> None
                        [] v \in 92..98 ->
                            Some([precipStatus |-> "REPORTED",
                                  precipValue |-> (100 + (v - 92) * 50) * 10])
                        [] v = 99 ->
                            Some([precipStatus |-> "RUNWAY_NOT_OPERATIONAL",
                                  precipValue |-> 0])
                        [] OTHER ->
                            Some([precipStatus |-> "REPORTED", precipValue |-> v * 10])

(***************************************************************************)
(* SurfaceFriction                                                         *)
(***************************************************************************)
SurfaceFriction_default == [sfStatus |-> "NOT_REPORTED", sfCoefficient |-> 0]

baPoorLowLimit == 0
baMediumPoorLowLimit == 26
baMediumLowLimit == 30
baMediumGoodLowLimit == 36
baGoodLowLimit == 40

SurfaceFriction_fromString(s) ==
    IF Len(s) # 2 THEN None
    ELSE IF s = <<"/", "/">> THEN Some(SurfaceFriction_default)
    ELSE LET sfVal == strToUint(s, 0, 2)
         IN  IF ~HasValue(sfVal) THEN None
             ELSE LET coefficient == Value(sfVal)
                      ba(limit) == Some([sfStatus |-> "BRAKING_ACTION_REPORTED",
                                         sfCoefficient |-> limit])
                  IN  CASE coefficient = 91 -> ba(baPoorLowLimit)
                        [] coefficient = 92 -> ba(baMediumPoorLowLimit)
                        [] coefficient = 93 -> ba(baMediumLowLimit)
                        [] coefficient = 94 -> ba(baMediumGoodLowLimit)
                        [] coefficient = 95 -> ba(baGoodLowLimit)
                        [] coefficient \in {96, 97, 98} -> None
                        [] coefficient = 99 ->
                            Some([SurfaceFriction_default EXCEPT !.sfStatus = "UNRELIABLE"])
                        [] OTHER ->
                            Some([sfStatus |-> "SURFACE_FRICTION_REPORTED",
                                  sfCoefficient |-> coefficient])

(***************************************************************************)
(* WaveHeight: the value is in decimetres                                   *)
(***************************************************************************)
WaveHeight_default == [whType |-> "STATE_OF_SURFACE", whValue |-> None]

waveHeightFromStateOfSurfaceChar(c) ==
    CASE c = "0" -> Some(0)
      [] c = "1" -> Some(1)
      [] c = "2" -> Some(5)
      [] c = "3" -> Some(12)
      [] c = "4" -> Some(25)
      [] c = "5" -> Some(40)
      [] c = "6" -> Some(60)
      [] c = "7" -> Some(90)
      [] c = "8" -> Some(140)
      [] c = "9" -> Some(141)
      [] OTHER -> None

WaveHeight_fromString(s) ==
    IF Len(s) < 2 \/ Len(s) > 4 THEN None
    ELSE IF s = <<"H", "/", "/", "/">> THEN Some([WaveHeight_default EXCEPT !.whType = "WAVE_HEIGHT"])
    ELSE IF s = <<"S", "/">> THEN Some(WaveHeight_default)
    ELSE IF s[1] = "S"
    THEN IF Len(s) # 2 THEN None
         ELSE LET h == waveHeightFromStateOfSurfaceChar(s[2])
              IN  IF ~HasValue(h) THEN None
                  ELSE Some([whType |-> "STATE_OF_SURFACE", whValue |-> h])
    ELSE IF s[1] = "H"
    THEN LET h == strToUint(s, 1, Len(s) - 1)
         IN  IF ~HasValue(h) THEN None
             ELSE Some([whType |-> "WAVE_HEIGHT", whValue |-> h])
    ELSE None

(***************************************************************************)
(* WindGroup                                                               *)
(***************************************************************************)
WindGroup_default ==
    [kind |-> "WindGroup", windDir |-> Direction_default,
     wSpeed |-> Speed_default, gSpeed |-> Speed_default,
     wShHeight |-> Distance_default,
     vsecBegin |-> Direction_default, vsecEnd |-> Direction_default]

\* "\\d\\d0|VRB|///" at 0-based position p
WindDirAt(s, p) ==
    \/ (AllIn(s, p, 2, Digits) /\ HasAt(s, p + 2, <<"0">>))
    \/ HasAt(s, p, <<"V", "R", "B">>)
    \/ HasAt(s, p, <<"/", "/", "/">>)

\* "[1-9]?\\d\\d" of length n (2 or 3) at 0-based position p
WindSpeedDigitsAt(s, p, n) ==
    IF n = 2 THEN AllIn(s, p, 2, Digits)
    ELSE AllIn(s, p, 1, Digits \ {"0"}) /\ AllIn(s, p + 1, 2, Digits)

\* The ways the token matches windRgx
\*   (?:WS(\d\d\d)/)?(\d\d0|VRB|///)([1-9]?\d\d|//)(?:G([1-9]?\d\d))?([KM][TMP][HS]?)
\* as the lengths of the wind shear prefix, the speed, the gust part and the unit.
WindRgxMatches(s) ==
    {m \in [ws : {0, 6}, spd : {2, 3}, gst : {0, 3, 4}, unit : {2, 3}] :
        /\ m.ws + 3 + m.spd + m.gst + m.unit = Len(s)
        /\ m.ws = 6 => /\ HasAt(s, 0, <<"W", "S">>)
                       /\ AllIn(s, 2, 3, Digits)
                       /\ HasAt(s, 5, <<"/">>)
        /\ WindDirAt(s, m.ws)
        /\ \/ WindSpeedDigitsAt(s, m.ws + 3, m.spd)
           \/ (m.spd = 2 /\ HasAt(s, m.ws + 3, <<"/", "/">>))
        /\ m.gst > 0 => /\ HasAt(s, m.ws + 3 + m.spd, <<"G">>)
                        /\ WindSpeedDigitsAt(s, m.ws + 3 + m.spd + 1, m.gst - 1)
        /\ AllIn(s, Len(s) - m.unit, 1, {"K", "M"})
        /\ AllIn(s, Len(s) - m.unit + 1, 1, {"T", "M", "P"})
        /\ m.unit = 3 => AllIn(s, Len(s) - 1, 1, {"H", "S"})}

WindGroup_parse(group, part) ==
    IF part # "METAR" /\ part # "TAF" THEN None
    ELSE IF WindRgxMatches(group) # {}
    THEN LET m == CHOOSE x \in WindRgxMatches(group) : TRUE
             speedUnit == Speed_unitFromString(substr(group, Len(group) - m.unit, m.unit))
             dir == Direction_fromDegreesString(substr(group, m.ws, 3))
             speed == Speed_fromString(substr(group, m.ws + 3, m.spd), Value(speedUnit))
             gust == Speed_fromString(
                        substr(group, m.ws + 3 + m.spd + 1, m.gst - 1), Value(speedUnit))
             wsHeight == Distance_fromHeightString(
                        IF m.ws = 6 THEN substr(group, 2, 3) ELSE <<>>)
         IN  IF ~HasValue(speedUnit) THEN None
             ELSE IF ~HasValue(dir) THEN None
             ELSE IF ~HasValue(speed) THEN None
             ELSE Some([WindGroup_default EXCEPT
                    !.windDir = Value(dir),
                    !.wSpeed = Value(speed),
                    !.gSpeed = IF HasValue(gust) THEN Value(gust) ELSE Speed_default,
                    !.wShHeight = IF HasValue(wsHeight) THEN Value(wsHeight)
                                  ELSE Distance_default])
    \* varWindRgx "(\\d\\d0)V(\\d\\d0)"
    ELSE IF /\ Len(group) = 7
            /\ AllIn(group, 0, 2, Digits) /\ group[3] = "0" /\ group[4] = "V"
            /\ AllIn(group, 4, 2, Digits) /\ group[7] = "0"
    THEN LET begin == Direction_fromDegreesString(substr(group, 0, 3))
             end == Direction_fromDegreesString(substr(group, 4, 3))
         IN  IF ~HasValue(begin) THEN None
             ELSE IF ~HasValue(end) THEN None
             ELSE Some([WindGroup_default EXCEPT
                    !.vsecBegin = Value(begin), !.vsecEnd = Value(end)])
    ELSE None

WindGroup_isSurfaceWindGroup(g) ==
    /\ g.windDir.dirStatus # "OMMITTED"
    /\ ~Distance_isReported(g.wShHeight)
    /\ g.vsecBegin.dirStatus = "OMMITTED"
    /\ g.vsecEnd.dirStatus = "OMMITTED"

WindGroup_isWindSectorGroup(g) ==
    /\ g.windDir.dirStatus = "OMMITTED"
    /\ ~HasValue(g.wSpeed.speedValue)
    /\ ~HasValue(g.gSpeed.speedValue)
    /\ ~Distance_isReported(g.wShHeight)
    /\ g.vsecBegin.dirStatus = "VALUE_DEGREES"
    /\ g.vsecEnd.dirStatus = "VALUE_DEGREES"

WindGroup_combine(g, nextGroup) ==
    IF nextGroup.kind # "WindGroup" THEN None
    ELSE IF ~WindGroup_isSurfaceWindGroup(g) THEN None
    ELSE IF ~WindGroup_isWindSectorGroup(nextGroup) THEN None
    ELSE Some([g EXCEPT !.vsecBegin = nextGroup.vsecBegin,
                         !.vsecEnd = nextGroup.vsecEnd])

WindGroup_isValid(g) ==
    /\ ~(ValueOr(g.wSpeed.speedValue, 0) >= ValueOr(g.gSpeed.speedValue, 999))
    /\ ~(ValueOr(g.gSpeed.speedValue, 1) = 0)
    /\ ~(ValueOr(g.wShHeight.distValueInt, 1) = 0)
    /\ Direction_isValid(g.windDir)
    /\ Distance_isValid(g.wShHeight)
    /\ Direction_isValid(g.vsecBegin)
    /\ Direction_isValid(g.vsecEnd)

(***************************************************************************)
(* VisibilityGroup                                                         *)
(***************************************************************************)
VisibilityGroup_default ==
    [kind |-> "VisibilityGroup", vis |-> Distance_default,
     dir |-> Direction_default, incompleteInteger |-> FALSE]

\* "(\\d\\d\\d\\d|////)([NSWE][WED]?[V]?)?"
VisibilityMeterRgx(s) ==
    /\ Len(s) >= 4 /\ Len(s) <= 7
    /\ (AllIn(s, 0, 4, Digits) \/ HasAt(s, 0, <<"/", "/", "/", "/">>))
    /\ Len(s) > 4 => s[5] \in {"N", "S", "W", "E"}
    /\ Len(s) = 6 => s[6] \in {"W", "E", "D", "V"}
    /\ Len(s) = 7 => (s[6] \in {"W", "E", "D"} /\ s[7] = "V")

VisibilityGroup_parse(group, part) ==
    IF part # "METAR" /\ part # "TAF" THEN None
    ELSE IF Len(group) = 1 /\ group[1] \in Digits
    THEN Some([VisibilityGroup_default EXCEPT
                !.vis = Distance_ofValue(DigitValue(group[1]), "STATUTE_MILES"),
                !.incompleteInteger = TRUE])
    ELSE IF VisibilityMeterRgx(group)
    THEN LET v == Distance_fromMeterString(substr(group, 0, 4))
             d == Direction_fromCardinalString(substr(group, 4, Len(group) - 4))
         IN  IF ~HasValue(v) THEN None
             ELSE IF ~HasValue(d) THEN None
             ELSE Some([VisibilityGroup_default EXCEPT
                            !.vis = Value(v), !.dir = Value(d)])
    ELSE LET v == Distance_fromMileString(group)
         IN  IF ~HasValue(v) THEN None
             ELSE Some([VisibilityGroup_default EXCEPT !.vis = Value(v)])

\* combine that leaves the combined group marked as an incomplete integer
VisibilityGroup_combine_staysIncomplete(g, nextGroup) ==
    IF nextGroup.kind # "VisibilityGroup" THEN None
    ELSE IF g.vis.distUnit # "STATUTE_MILES"
            \/ nextGroup.vis.distUnit # "STATUTE_MILES" THEN None
    ELSE IF g.incompleteInteger /\ Distance_isFraction(nextGroup.vis)
    THEN LET v == Distance_fromIntegerAndFraction(g.vis, nextGroup.vis)
         IN  IF ~HasValue(v) THEN None
             ELSE Some([g EXCEPT !.vis = Value(v)])
    ELSE None

VisibilityGroup_combine(g, nextGroup) ==
    IF nextGroup.kind # "VisibilityGroup" THEN None
    ELSE IF g.vis.distUnit # "STATUTE_MILES"
            \/ nextGroup.vis.distUnit # "STATUTE_MILES" THEN None
    ELSE IF g.incompleteInteger /\ Distance_isFraction(nextGroup.vis)
    THEN LET v == Distance_fromIntegerAndFraction(g.vis, nextGroup.vis)
         IN  IF ~HasValue(v) THEN None
             ELSE Some([g EXCEPT !.vis = Value(v), !.incompleteInteger = FALSE])
    ELSE None

VisibilityGroup_isValid(g) ==
    ~g.incompleteInteger /\ Distance_isValid(g.vis) /\ Direction_isValid(g.dir)

(***************************************************************************)
(* WindShearLowLayerGroup                                                  *)
(***************************************************************************)
WindShearLowLayerGroup_default ==
    [kind |-> "WindShearLowLayerGroup", rw |-> Runway_default,
     status |-> "INCOMPLETE_WS"]

WindShearLowLayerGroup_parse(group, part) ==
    IF part # "METAR" THEN None
    ELSE IF group = <<"W", "S">> THEN Some(WindShearLowLayerGroup_default)
    ELSE None

\* combine in which a complete group takes the runway of a further token
WindShearLowLayerGroup_combine_completeTakesRunway(g, nextGroup) ==
    IF nextGroup.kind # "PlainTextGroup" THEN None
    ELSE LET nextGroupStr == nextGroup.text
             runway == Runway_fromString(nextGroupStr, TRUE)
         IN  CASE g.status = "COMPLETE" ->
                    IF HasValue(runway) THEN Some([g EXCEPT !.rw = Value(runway)])
                    ELSE None
               [] g.status = "INCOMPLETE_WS" ->
                    IF nextGroupStr = <<"A", "L", "L">>
                    THEN Some([g EXCEPT !.status = "INCOMPLETE_WS_ALL"])
                    ELSE IF HasValue(runway)
                    THEN Some([g EXCEPT !.status = "COMPLETE", !.rw = Value(runway)])
                    ELSE None
               [] g.status = "INCOMPLETE_WS_ALL" ->
                    IF nextGroupStr = <<"R", "W", "Y">>
                    THEN Some([g EXCEPT !.status = "COMPLETE",
                                         !.rw = Runway_makeAllRunways])
                    ELSE None
               [] OTHER -> None

\* combine that takes a runway after WS ALL as well
WindShearLowLayerGroup_combine_runwayAfterAll(g, nextGroup) ==
    IF nextGroup.kind # "PlainTextGroup" THEN None
    ELSE LET nextGroupStr == nextGroup.text
             runway == Runway_fromString(nextGroupStr, TRUE)
         IN  CASE g.status = "COMPLETE" -> None
               [] g.status = "INCOMPLETE_WS" ->
                    IF nextGroupStr = <<"A", "L", "L">>
                    THEN Some([g EXCEPT !.status = "INCOMPLETE_WS_ALL"])
                    ELSE IF HasValue(runway)
                    THEN Some([g EXCEPT !.status = "COMPLETE", !.rw = Value(runway)])
                    ELSE None
               [] g.status = "INCOMPLETE_WS_ALL" ->
                    IF nextGroupStr = <<"R", "W", "Y">>
                    THEN Some([g EXCEPT !.status = "COMPLETE",
                                         !.rw = Runway_makeAllRunways])
                    ELSE IF HasValue(runway)
                    THEN Some([g EXCEPT !.status = "COMPLETE", !.rw = Value(runway)])
                    ELSE None
               [] OTHER -> None

WindShearLowLayerGroup_combine(g, nextGroup) ==
    IF nextGroup.kind # "PlainTextGroup" THEN None
    ELSE LET nextGroupStr == nextGroup.text
             runway == Runway_fromString(nextGroupStr, TRUE)
         IN  CASE g.status = "COMPLETE" -> None
               [] g.status = "INCOMPLETE_WS" ->
                    IF nextGroupStr = <<"A", "L", "L">>
                    THEN Some([g EXCEPT !.status = "INCOMPLETE_WS_ALL"])
                    ELSE IF HasValue(runway)
                    THEN Some([g EXCEPT !.status = "COMPLETE", !.rw = Value(runway)])
                    ELSE None
               [] g.status = "INCOMPLETE_WS_ALL" ->
                    IF nextGroupStr = <<"R", "W", "Y">>
                    THEN Some([g EXCEPT !.status = "COMPLETE",
                                         !.rw = Runway_makeAllRunways])
                    ELSE None
               [] OTHER -> None

\* isValid that does not look at the runway
WindShearLowLayerGroup_isValid_anyRunway(g) == g.status = "COMPLETE"

WindShearLowLayerGroup_isValid(g) == Runway_isValid(g.rw) /\ g.status = "COMPLETE"

(***************************************************************************)
(* CloudGroup                                                              *)
(***************************************************************************)
CloudGroup_default ==
    [kind |-> "CloudGroup", amnt |-> "NOT_REPORTED",
     heightOrVertVis |-> Distance_default, tp |-> "NONE"]

CloudGroup_ofAmount(a) == [CloudGroup_default EXCEPT !.amnt = a]

CloudGroup_amountFromString(s) ==
    CASE s = <<"F", "E", "W">> -> Some("FEW")
      [] s = <<"S", "C", "T">> -> Some("SCATTERED")
      [] s = <<"B", "K", "N">> -> Some("BROKEN")
      [] s = <<"O", "V", "C">> -> Some("OVERCAST")
      [] s = <<"V", "V">> -> Some("OBSCURED")
      [] s = <<"/", "/", "/">> -> Some("NOT_REPORTED")
      [] OTHER -> None

CloudGroup_typeFromString(s) ==
    CASE s = <<>> -> Some("NONE")
      [] s = <<"T", "C", "U">> -> Some("TOWERING_CUMULUS")
      [] s = <<"C", "B">> -> Some("CUMULONIMBUS")
      [] s = <<"/", "/", "/">> -> Some("NOT_REPORTED")
      [] OTHER -> None

\* ([BFOSV][CEKV][CNTW]?|///)(\d\d\d|///)([CT][BC][U]?|///)? : the lengths of
\* the amount and of the type of the match
CloudRgxMatches(s) ==
    {m \in [a : {2, 3}, t : {0, 2, 3}] :
        /\ Len(s) = m.a + 3 + m.t
        /\ \/ /\ s[1] \in {"B", "F", "O", "S", "V"}
              /\ s[2] \in {"C", "E", "K", "V"}
              /\ m.a = 3 => s[3] \in {"C", "N", "T", "W"}
           \/ m.a = 3 /\ substr(s, 0, 3) = <<"/", "/", "/">>
        /\ AllIn(s, m.a, 3, Digits) \/ substr(s, m.a, 3) = <<"/", "/", "/">>
        /\ \/ m.t = 0
           \/ /\ m.t \in {2, 3}
              /\ s[m.a + 4] \in {"C", "T"}
              /\ s[m.a + 5] \in {"B", "C"}
              /\ m.t = 3 => s[m.a + 6] = "U"
           \/ m.t = 3 /\ substr(s, m.a + 3, 3) = <<"/", "/", "/">>}

CloudGroup_parse(group, part) ==
    IF part # "METAR" /\ part # "TAF" THEN None
    ELSE IF group = <<"N", "C", "D">> THEN Some(CloudGroup_ofAmount("NCD"))
    ELSE IF group = <<"N", "S", "C">> THEN Some(CloudGroup_ofAmount("NSC"))
    ELSE IF group = <<"C", "L", "R">> THEN Some(CloudGroup_ofAmount("NONE_CLR"))
    ELSE IF group = <<"S", "K", "C">> THEN Some(CloudGroup_ofAmount("NONE_SKC"))
    ELSE IF CloudRgxMatches(group) = {} THEN None
    ELSE LET m == CHOOSE x \in CloudRgxMatches(group) : TRUE
             amount == CloudGroup_amountFromString(substr(group, 0, m.a))
             height == Distance_fromHeightString(substr(group, m.a, 3))
             type == CloudGroup_typeFromString(substr(group, m.a + 3, m.t))
         IN  IF ~HasValue(amount) THEN None
             ELSE IF ~HasValue(height) THEN None
             ELSE IF ~HasValue(type) THEN None
             ELSE IF Value(amount) = "OBSCURED" /\ Value(type) # "NONE" THEN None
             ELSE Some([kind |-> "CloudGroup", amnt |-> Value(amount),
                        heightOrVertVis |-> Value(height), tp |-> Value(type)])

CloudGroup_combine(g, nextGroup) == None

CloudGroup_isValid(g) == Distance_isValid(g.heightOrVertVis)

(***************************************************************************)
(* WeatherGroup                                                            *)
(***************************************************************************)
maxwSize == 8

WeatherGroup_default ==
    [kind |-> "WeatherGroup", q |-> "NONE", d |-> "NONE", w |-> <<>>]

WeatherGroup_notReported == [WeatherGroup_default EXCEPT !.w = <<"NOT_REPORTED">>]

WeatherGroup_notReportedRecent == [WeatherGroup_notReported EXCEPT !.q = "RECENT"]

WeatherGroup_qualifierFromString(s) ==
    CASE s = <<>> -> Some("NONE")
      [] s = <<"R", "E">> -> Some("RECENT")
      [] s = <<"-">> -> Some("LIGHT")
      [] s = <<"+">> -> Some("HEAVY")
      [] s = <<"V", "C">> -> Some("VICINITY")
      [] OTHER -> None

WeatherGroup_descriptorFromString(s) ==
    CASE s = <<>> -> Some("NONE")
      [] s = <<"M", "I">> -> Some("SHALLOW")
      [] s = <<"P", "R">> -> Some("PARTIAL")
      [] s = <<"B", "C">> -> Some("PATCHES")
      [] s = <<"D", "R">> -> Some("LOW_DRIFTING")
      [] s = <<"B", "L">> -> Some("BLOWING")
      [] s = <<"S", "H">> -> Some("SHOWERS")
      [] s = <<"T", "S">> -> Some("THUNDERSTORM")
      [] s = <<"F", "Z">> -> Some("FREEZING")
      [] OTHER -> None

WeatherGroup_weatherFromString(s) ==
    CASE s = <<"D", "Z">> -> Some("DRIZZLE")
      [] s = <<"R", "A">> -> Some("RAIN")
      [] s = <<"S", "N">> -> Some("SNOW")
      [] s = <<"S", "G">> -> Some("SNOW_GRAINS")
      [] s = <<"I", "C">> -> Some("ICE_CRYSTALS")
      [] s = <<"P", "L">> -> Some("ICE_PELLETS")
      [] s = <<"G", "R">> -> Some("HAIL")
      [] s = <<"G", "S">> -> Some("SMALL_HAIL")
      [] s = <<"U", "P">> -> Some("UNDETERMINED")
      [] s = <<"B", "R">> -> Some("MIST")
      [] s = <<"F", "G">> -> Some("FOG")
      [] s = <<"F", "U">> -> Some("SMOKE")
      [] s = <<"V", "A">> -> Some("VOLCANIC_ASH")
      [] s = <<"D", "U">> -> Some("DUST")
      [] s = <<"S", "A">> -> Some("SAND")
      [] s = <<"H", "Z">> -> Some("HAZE")
      [] s = <<"P", "Y">> -> Some("SPRAY")
      [] s = <<"P", "O">> -> Some("DUST_WHIRLS")
      [] s = <<"S", "Q">> -> Some("SQUALLS")
      [] s = <<"F", "C">> -> Some("FUNNEL_CLOUD")
      [] s = <<"S", "S">> -> Some("SANDSTORM")
      [] s = <<"D", "S">> -> Some("DUSTSTORM")
      [] OTHER -> None

WeatherGroup_isModerateQualifier(g) ==
    \E i \in 1..Len(g.w) :
        \/ g.w[i] \in {"DRIZZLE", "RAIN", "SNOW_GRAINS", "ICE_PELLETS", "UNDETERMINED"}
        \/ g.w[i] = "SNOW" /\ g.d # "LOW_DRIFTING" /\ g.d # "BLOWING"

\* (RE|[\+-]|VC)?(MI|PR|BC|DR|BL|SH|TS|FZ)?((?:[A-Z][A-Z])*) : the lengths of
\* the qualifier and of the descriptor of the match; the optional parts take
\* what they can
WeatherRgxMatch(s) ==
    LET ql == IF HasAt(s, 0, <<"R", "E">>) \/ HasAt(s, 0, <<"V", "C">>) THEN 2
              ELSE IF HasAt(s, 0, <<"+">>) \/ HasAt(s, 0, <<"-">>) THEN 1
              ELSE 0
        dl == IF HasValue(WeatherGroup_descriptorFromString(substr(s, ql, 2)))
                    /\ Len(substr(s, ql, 2)) = 2
              THEN 2 ELSE 0
        wl == Len(s) - ql - dl
    IN  IF wl % 2 = 0 /\ AllIn(s, ql + dl, wl, UpperCase)
        THEN Some([q |-> ql, d |-> dl, w |-> wl])
        ELSE None

WeatherGroup_parse(group, part) ==
    IF part # "METAR" /\ part # "TAF" THEN None
    ELSE IF part = "METAR" /\ group = <<"R", "E", "/", "/">> THEN Some(WeatherGroup_notReportedRecent)
    ELSE IF part = "METAR" /\ group = <<"/", "/">> THEN Some(WeatherGroup_notReported)
    ELSE IF group = <<>> THEN None
    ELSE IF ~HasValue(WeatherRgxMatch(group)) THEN None
    ELSE LET m == Value(WeatherRgxMatch(group))
             qualifier == WeatherGroup_qualifierFromString(substr(group, 0, m.q))
             descriptor == WeatherGroup_descriptorFromString(substr(group, m.q, m.d))
             weatherStr == substr(group, m.q + m.d, m.w)
             weather == [i \in 1..(m.w \div 2) |->
                            WeatherGroup_weatherFromString(SubSeq(weatherStr, 2 * i - 1, 2 * i))]
         IN  IF ~HasValue(qualifier) THEN None
             ELSE IF ~HasValue(descriptor) THEN None
             ELSE IF \E i \in 1..Len(weather) : ~HasValue(weather[i]) \/ i > maxwSize
             THEN None
             ELSE LET parsed == [kind |-> "WeatherGroup", q |-> Value(qualifier),
                                 d |-> Value(descriptor),
                                 w |-> [i \in 1..Len(weather) |-> Value(weather[i])]]
                  IN  IF parsed.q = "NONE" /\ WeatherGroup_isModerateQualifier(parsed)
                      THEN Some([parsed EXCEPT !.q = "MODERATE"])
                      ELSE Some(parsed)

WeatherGroup_combine(g, nextGroup) == None

WeatherGroup_isValid(g) == TRUE

(***************************************************************************)
(* TemperatureGroup                                                        *)
(***************************************************************************)
TemperatureGroup_default ==
    [kind |-> "TemperatureGroup", t |-> Temperature_default, dp |-> Temperature_default]

\* M?\d\d|//
TemperatureRgx(s) ==
    \/ s = <<"/", "/">>
    \/ Len(s) = 2 /\ AllIn(s, 0, 2, Digits)
    \/ Len(s) = 3 /\ s[1] = "M" /\ AllIn(s, 1, 2, Digits)

TemperatureGroup_parse(group, part) ==
    IF part # "METAR" THEN None
    ELSE LET tl == IF HasAt(group, 0, <<"M">>) THEN 3 ELSE 2
             matchTemperature == substr(group, 0, tl)
             matchDewPoint == substr(group, tl + 1, Len(group))
             t == Temperature_fromString(matchTemperature)
             dp == Temperature_fromString(matchDewPoint)
         IN  IF ~(/\ TemperatureRgx(matchTemperature)
                  /\ HasAt(group, tl, <<"/">>)
                  /\ (matchDewPoint = <<>> \/ TemperatureRgx(matchDewPoint)))
             THEN None
             ELSE IF ~HasValue(t) THEN None
             ELSE IF matchDewPoint # <<>> /\ ~HasValue(dp) THEN None
             ELSE Some([kind |-> "TemperatureGroup", t |-> Value(t),
                        dp |-> IF matchDewPoint # <<>> THEN Value(dp)
                               ELSE Temperature_default])

TemperatureGroup_combine(g, nextGroup) == None

TemperatureGroup_isValid(g) ==
    IF ~HasValue(g.t.tempValue) \/ ~HasValue(g.dp.tempValue) THEN TRUE
    ELSE IF /\ Value(g.t.tempValue) = 0 /\ Value(g.dp.tempValue) = 0
            /\ g.t.freezing /\ ~g.dp.freezing
    THEN FALSE
    ELSE Value(g.t.tempValue) >= Value(g.dp.tempValue)

(***************************************************************************)
(* TemperatureForecastGroup                                                *)
(***************************************************************************)
TemperatureForecastGroup_pointFromString(s) ==
    CASE s = <<"T", "X">> -> Some("MAXIMUM")
      [] s = <<"T", "N">> -> Some("MINIMUM")
      [] OTHER -> None

TemperatureForecastGroup_parse(group, part) ==
    IF part # "TAF" THEN None
    ELSE LET tl == IF HasAt(group, 2, <<"M">>) THEN 3 ELSE 2
             matchPoint == substr(group, 0, 2)
             matchTemperature == substr(group, 2, tl)
             matchTime == substr(group, 2 + tl + 1, 4)
             point == TemperatureForecastGroup_pointFromString(matchPoint)
             temp == Temperature_fromString(matchTemperature)
             time == MetafTime_fromStringDDHH(matchTime)
         IN  \* (TX|TN)(M?\d\d)/(\d\d\d\d)Z
             IF ~(/\ Len(group) = 2 + tl + 1 + 4 + 1
                  /\ matchPoint \in {<<"T", "X">>, <<"T", "N">>}
                  /\ AllIn(group, 2 + tl - 2, 2, Digits)
                  /\ HasAt(group, 2 + tl, <<"/">>)
                  /\ AllIn(group, 2 + tl + 1, 4, Digits)
                  /\ HasAt(group, 2 + tl + 5, <<"Z">>))
             THEN None
             ELSE IF ~HasValue(point) THEN None
             ELSE IF ~HasValue(temp) THEN None
             ELSE IF ~HasValue(time) THEN None
             ELSE Some([kind |-> "TemperatureForecastGroup", p |-> Value(point),
                        t |-> Value(temp), tm |-> Value(time)])

TemperatureForecastGroup_combine(g, nextGroup) == None

TemperatureForecastGroup_isValid(g) == MetafTime_isValid(g.tm)

(***************************************************************************)
(* PressureGroup                                                           *)
(***************************************************************************)
PressureGroup_parse(group, part) ==
    LET made(pressure, type) ==
            IF ~HasValue(pressure) THEN None
            ELSE Some([kind |-> "PressureGroup", t |-> type, p |-> Value(pressure)])
    IN  CASE part = "METAR" -> made(Pressure_fromString(group), "OBSERVED_QNH")
          [] part = "TAF" ->
                made(Pressure_fromForecastString(group), "FORECAST_LOWEST_QNH")
          [] part = "RMK" ->
                IF HasValue(Pressure_fromSlpString(group))
                THEN made(Pressure_fromSlpString(group), "OBSERVED_QNH")
                ELSE made(Pressure_fromQfeString(group), "OBSERVED_QFE")
          [] OTHER -> None

PressureGroup_combine(g, nextGroup) == None

PressureGroup_isValid(g) == TRUE

(***************************************************************************)
(* RunwayVisualRangeGroup                                                  *)
(***************************************************************************)
RunwayVisualRangeGroup_trendFromString(s) ==
    CASE s = <<>> -> Some("NONE")
      [] s = <<"/">> -> Some("NOT_REPORTED")
      [] s = <<"U">> -> Some("UPWARD")
      [] s = <<"N">> -> Some("NEUTRAL")
      [] s = <<"D">> -> Some("DOWNWARD")
      [] OTHER -> None

\* R\d\d[RCL]? at the begin of s: the length of the match, 0 if there is none
RunwayRgxLength(s) ==
    IF ~(HasAt(s, 0, <<"R">>) /\ AllIn(s, 1, 2, Digits)) THEN 0
    ELSE IF Len(s) >= 4 /\ s[4] \in {"R", "C", "L"} THEN 4
    ELSE 3

\* ////|[PM]?\d\d\d\d at the 0-based position pos of s: the length of the
\* match, 0 if there is none; the regular expression of the variable range
\* does not have ////
RvrRgxLength(s, pos, slashes) ==
    IF slashes /\ HasAt(s, pos, <<"/", "/", "/", "/">>) THEN 4
    ELSE IF AllIn(s, pos, 4, Digits) THEN 4
    ELSE IF AllIn(s, pos, 1, {"P", "M"}) /\ AllIn(s, pos + 1, 4, Digits) THEN 5
    ELSE 0

\* (R\d\d[RCL]?)/(////|[PM]?\d\d\d\d)(?:V([PM]?\d\d\d\d))?(FT/?)?([UND/])?
RunwayVisualRangeRgx(s) ==
    LET rl == RunwayRgxLength(s)
        vl == RvrRgxLength(s, rl + 1, TRUE)
        hasVar == HasAt(s, rl + 1 + vl, <<"V">>)
        varl == IF hasVar THEN RvrRgxLength(s, rl + 1 + vl + 1, FALSE) ELSE 0
        unitPos == rl + 1 + vl + (IF hasVar THEN 1 + varl ELSE 0)
        ul == IF HasAt(s, unitPos, <<"F", "T", "/">>) THEN 3
              ELSE IF HasAt(s, unitPos, <<"F", "T">>) THEN 2
              ELSE 0
        trendStr == substr(s, unitPos + ul, Len(s))
    IN  IF /\ rl > 0
           /\ HasAt(s, rl, <<"/">>)
           /\ vl > 0
           /\ hasVar => varl > 0
           /\ trendStr \in {<<>>, <<"U">>, <<"N">>, <<"D">>, <<"/">>}
        THEN Some([matchRunway |-> substr(s, 0, rl),
                   matchRvr |-> substr(s, rl + 1, vl),
                   matchVarRvr |-> substr(s, rl + 1 + vl + 1, varl),
                   matchUnit |-> substr(s, unitPos, ul),
                   matchTrend |-> trendStr])
        ELSE None

RunwayVisualRangeGroup_parse(group, part) ==
    IF part # "METAR" THEN None
    ELSE IF ~HasValue(RunwayVisualRangeRgx(group)) THEN None
    ELSE LET match == Value(RunwayVisualRangeRgx(group))
             tr == RunwayVisualRangeGroup_trendFromString(match.matchTrend)
             unitFeet == Len(match.matchUnit) > 0
             runway == Runway_fromString(match.matchRunway, FALSE)
             rvr == Distance_fromRvrString(match.matchRvr, unitFeet)
             varRvr == Distance_fromRvrString(match.matchVarRvr, unitFeet)
         IN  IF ~HasValue(tr) THEN None
             ELSE IF ~HasValue(runway) THEN None
             ELSE IF ~HasValue(rvr) THEN None
             ELSE IF Len(match.matchVarRvr) > 0 /\ ~HasValue(varRvr) THEN None
             ELSE Some([kind |-> "RunwayVisualRangeGroup", rw |-> Value(runway),
                        visRange |-> Value(rvr),
                        varVisRange |-> IF Len(match.matchVarRvr) > 0
                                        THEN Value(varRvr) ELSE Distance_default,
                        trnd |-> Value(tr)])

RunwayVisualRangeGroup_combine(g, nextGroup) == None

RunwayVisualRangeGroup_isValid(g) ==
    Runway_isValid(g.rw) /\ Distance_isValid(g.visRange) /\ Distance_isValid(g.varVisRange)

(***************************************************************************)
(* RunwayStateGroup                                                        *)
(***************************************************************************)
RunwayStateGroup_default ==
    [kind |-> "RunwayStateGroup", rw |-> Runway_default, st |-> "NORMAL",
     dp |-> "NOT_REPORTED", ext |-> "NOT_REPORTED",
     dDepth |-> Precipitation_default, sf |-> SurfaceFriction_default]

RunwayStateGroup_runwaySnoclo(runway) ==
    [RunwayStateGroup_default EXCEPT !.rw = runway, !.st = "SNOCLO"]

RunwayStateGroup_runwayClrd(runway, surfaceFriction) ==
    [RunwayStateGroup_default EXCEPT !.rw = runway, !.st = "CLRD",
                                     !.sf = surfaceFriction]

RunwayStateGroup_depositsFromString(s) ==
    IF Len(s) # 1 THEN None
    ELSE CASE s[1] = "0" -> Some("CLEAR_AND_DRY")
           [] s[1] = "1" -> Some("DAMP")
           [] s[1] = "2" -> Some("WET_AND_WATER_PATCHES")
           [] s[1] = "3" -> Some("RIME_AND_FROST_COVERED")
           [] s[1] = "4" -> Some("DRY_SNOW")
           [] s[1] = "5" -> Some("WET_SNOW")
           [] s[1] = "6" -> Some("SLUSH")
           [] s[1] = "7" -> Some("ICE")
           [] s[1] = "8" -> Some("COMPACTED_OR_ROLLED_SNOW")
           [] s[1] = "9" -> Some("FROZEN_RUTS_OR_RIDGES")
           [] s[1] = "/" -> Some("NOT_REPORTED")
           [] OTHER -> None

RunwayStateGroup_extentFromString(s) ==
    IF Len(s) # 1 THEN None
    ELSE CASE s[1] = "0" -> Some("NONE")
           [] s[1] = "1" -> Some("LESS_THAN_10_PERCENT")
           [] s[1] = "2" -> Some("FROM_11_TO_25_PERCENT")
           [] s[1] = "3" -> Some("RESERVED_3")
           [] s[1] = "4" -> Some("RESERVED_4")
           [] s[1] = "5" -> Some("FROM_26_TO_50_PERCENT")
           [] s[1] = "6" -> Some("RESERVED_6")
           [] s[1] = "7" -> Some("RESERVED_7")
           [] s[1] = "8" -> Some("RESERVED_8")
           [] s[1] = "9" -> Some("MORE_THAN_51_PERCENT")
           [] s[1] = "/" -> Some("NOT_REPORTED")
           [] OTHER -> None

\* (R\d\d[RCL]?)/(?:(SNOCLO)|(?:(\d|/)(\d|/)(\d\d|//)|(CLRD))(\d\d|//))
RunwayStateRgx(s) ==
    LET rl == RunwayRgxLength(s)
        rest == substr(s, rl + 1, Len(s))
        twoDigits(pos) == AllIn(rest, pos, 2, Digits) \/ HasAt(rest, pos, <<"/", "/">>)
        blank == [matchRunway |-> substr(s, 0, rl), matchSnoclo |-> <<>>,
                  matchDeposits |-> <<>>, matchExtent |-> <<>>, matchDepth |-> <<>>,
                  matchClrd |-> <<>>, matchFriction |-> <<>>]
    IN  IF ~(rl > 0 /\ HasAt(s, rl, <<"/">>)) THEN None
        ELSE IF rest = <<"S", "N", "O", "C", "L", "O">> THEN Some([blank EXCEPT !.matchSnoclo = rest])
        ELSE IF Len(rest) # 6 \/ ~twoDigits(4) THEN None
        ELSE IF HasAt(rest, 0, <<"C", "L", "R", "D">>)
        THEN Some([blank EXCEPT !.matchClrd = substr(rest, 0, 4),
                                !.matchFriction = substr(rest, 4, 2)])
        ELSE IF /\ AllIn(rest, 0, 2, Digits \cup {"/"})
                /\ twoDigits(2)
        THEN Some([blank EXCEPT !.matchDeposits = substr(rest, 0, 1),
                                !.matchExtent = substr(rest, 1, 1),
                                !.matchDepth = substr(rest, 2, 2),
                                !.matchFriction = substr(rest, 4, 2)])
        ELSE None

RunwayStateGroup_parse(group, part) ==
    IF part # "METAR" THEN None
    ELSE IF ~HasValue(RunwayStateRgx(group)) THEN None
    ELSE LET match == Value(RunwayStateRgx(group))
             runway == Runway_fromString(match.matchRunway, FALSE)
             friction == SurfaceFriction_fromString(match.matchFriction)
             deposits == RunwayStateGroup_depositsFromString(match.matchDeposits)
             extent == RunwayStateGroup_extentFromString(match.matchExtent)
             depth == Precipitation_fromRunwayDeposits(match.matchDepth)
         IN  IF ~HasValue(runway) THEN None
             ELSE IF Len(match.matchSnoclo) > 0
             THEN Some(RunwayStateGroup_runwaySnoclo(Value(runway)))
             ELSE IF ~HasValue(friction) THEN None
             ELSE IF Len(match.matchClrd) > 0
             THEN Some(RunwayStateGroup_runwayClrd(Value(runway), Value(friction)))
             ELSE IF ~HasValue(deposits) THEN None
             ELSE IF ~HasValue(extent) THEN None
             ELSE IF ~HasValue(depth) THEN None
             ELSE Some([kind |-> "RunwayStateGroup", rw |-> Value(runway),
                        st |-> "NORMAL", dp |-> Value(deposits),
                        ext |-> Value(extent), dDepth |-> Value(depth),
                        sf |-> Value(friction)])

RunwayStateGroup_combine(g, nextGroup) == None

RunwayStateGroup_isValid(g) ==
    /\ Runway_isValid(g.rw)
    /\ g.ext \notin {"RESERVED_3", "RESERVED_4", "RESERVED_6", "RESERVED_7",
                     "RESERVED_8"}

(***************************************************************************)
(* RainfallGroup                                                           *)
(***************************************************************************)
\* \d..\d\.\d with n digits before the point, at the 0-based position pos
RainfallRgx(s, pos, n) ==
    AllIn(s, pos, n, Digits) /\ HasAt(s, pos + n, <<".">>) /\ AllIn(s, pos + n + 1, 1, Digits)

RainfallGroup_parse(group, part) ==
    IF part # "METAR" THEN None
    ELSE \* RF(\d\d\.\d|//\./)/(\d\d\d\.\d|///\./)(?:/(\d\d\d\.\d))?
         IF ~(/\ Len(group) \in {12, 18}
              /\ HasAt(group, 0, <<"R", "F">>)
              /\ RainfallRgx(group, 2, 2) \/ HasAt(group, 2, <<"/", "/", ".", "/">>)
              /\ HasAt(group, 6, <<"/">>)
              /\ RainfallRgx(group, 7, 3) \/ HasAt(group, 7, <<"/", "/", "/", ".", "/">>)
              /\ Len(group) = 18 => (HasAt(group, 12, <<"/">>) /\ RainfallRgx(group, 13, 3)))
         THEN None
         ELSE LET last10min == Precipitation_fromRainfallString(substr(group, 2, 4))
                  since9AM == Precipitation_fromRainfallString(substr(group, 7, 5))
                  last60min == Precipitation_fromRainfallString(substr(group, 13, 5))
              IN  IF ~HasValue(last10min) THEN None
                  ELSE IF ~HasValue(since9AM) THEN None
                  ELSE IF ~HasValue(last60min) THEN None
                  ELSE Some([kind |-> "RainfallGroup", last10m |-> Value(last10min),
                             since0900 |-> Value(since9AM),
                             last60m |-> Value(last60min)])

RainfallGroup_combine(g, nextGroup) == None

RainfallGroup_isValid(g) == TRUE

(***************************************************************************)
(* SeaSurfaceGroup                                                         *)
(***************************************************************************)
SeaSurfaceGroup_parse(group, part) ==
    IF part # "METAR" THEN None
    ELSE LET matchTemp == substr(group, 1, 2)
             matchWaveHeight == substr(group, 4, Len(group))
             wl == Len(matchWaveHeight) - 1
             temp == Temperature_fromString(matchTemp)
             waveHeight == WaveHeight_fromString(matchWaveHeight)
         IN  \* W(\d\d|//)/([HS](?:\d\d?\d?|///|/))
             IF ~(/\ HasAt(group, 0, <<"W">>)
                  /\ AllIn(group, 1, 2, Digits) \/ matchTemp = <<"/", "/">>
                  /\ HasAt(group, 3, <<"/">>)
                  /\ AllIn(group, 4, 1, {"H", "S"})
                  /\ \/ wl \in 1..3 /\ AllIn(group, 5, wl, Digits)
                     \/ substr(group, 5, Len(group)) \in {<<"/", "/", "/">>, <<"/">>})
             THEN None
             ELSE IF ~HasValue(temp) THEN None
             ELSE IF ~HasValue(waveHeight) THEN None
             ELSE Some([kind |-> "SeaSurfaceGroup", t |-> Value(temp),
                        wh |-> Value(waveHeight)])

SeaSurfaceGroup_combine(g, nextGroup) == None

SeaSurfaceGroup_isValid(g) == TRUE

(***************************************************************************)
(* ColourCodeGroup                                                         *)
(***************************************************************************)
ColourCodeGroup_parse(group, part) ==
    IF part # "METAR" THEN None
    ELSE LET codeBlack == <<"B", "L", "A", "C", "K">>
             cBlack == HasAt(group, 0, codeBlack)
             colourCodeStr == IF cBlack THEN substr(group, Len(codeBlack), Len(group))
                              ELSE group
             made(c) == Some([kind |-> "ColourCodeGroup", c |-> c, cBlack |-> cBlack])
         IN  CASE colourCodeStr = <<"B", "L", "U">> -> made("BLUE")
               [] colourCodeStr = <<"W", "H", "T">> -> made("WHITE")
               [] colourCodeStr = <<"G", "R", "N">> -> made("GREEN")
               [] colourCodeStr = <<"Y", "L", "O", "1">> -> made("YELLOW1")
               [] colourCodeStr = <<"Y", "L", "O", "2">> -> made("YELLOW2")
               [] colourCodeStr = <<"A", "M", "B">> -> made("AMBER")
               [] colourCodeStr = <<"R", "E", "D">> -> made("RED")
               [] OTHER -> None

ColourCodeGroup_combine(g, nextGroup) == None

ColourCodeGroup_isValid(g) == TRUE

(***************************************************************************)
(* GenericGroupParser::parse: the alternatives of the variant Group are     *)
(* probed in declaration order, the fallback PlainTextGroup is skipped and  *)
(* is the result when every other alternative declines.                     *)
(***************************************************************************)
GroupAlternatives == <<
    "PlainTextGroup", "FixedGroup", "LocationGroup", "ReportTimeGroup",
    "TrendGroup", "WindGroup", "VisibilityGroup", "CloudGroup", "WeatherGroup",
    "TemperatureGroup", "TemperatureForecastGroup", "PressureGroup",
    "RunwayVisualRangeGroup", "RunwayStateGroup", "WindShearLowLayerGroup",
    "RainfallGroup", "SeaSurfaceGroup", "ColourCodeGroup" >>

FallbackAlternative == "PlainTextGroup"

Alternative_parse(alt, group, part) ==
    CASE alt = "PlainTextGroup" -> PlainTextGroup_parse(group, part)
      [] alt = "FixedGroup" -> FixedGroup_parse(group, part)
      [] alt = "LocationGroup" -> LocationGroup_parse(group, part)
      [] alt = "ReportTimeGroup" -> ReportTimeGroup_parse(group, part)
      [] alt = "TrendGroup" -> TrendGroup_parse(group, part)
      [] alt = "WindGroup" -> WindGroup_parse(group, part)
      [] alt = "VisibilityGroup" -> VisibilityGroup_parse(group, part)
      [] alt = "CloudGroup" -> CloudGroup_parse(group, part)
      [] alt = "WeatherGroup" -> WeatherGroup_parse(group, part)
      [] alt = "TemperatureGroup" -> TemperatureGroup_parse(group, part)
      [] alt = "TemperatureForecastGroup" ->
            TemperatureForecastGroup_parse(group, part)
      [] alt = "PressureGroup" -> PressureGroup_parse(group, part)
      [] alt = "RunwayVisualRangeGroup" -> RunwayVisualRangeGroup_parse(group, part)
      [] alt = "RunwayStateGroup" -> RunwayStateGroup_parse(group, part)
      [] alt = "WindShearLowLayerGroup" -> WindShearLowLayerGroup_parse(group, part)
      [] alt = "RainfallGroup" -> RainfallGroup_parse(group, part)
      [] alt = "SeaSurfaceGroup" -> SeaSurfaceGroup_parse(group, part)
      [] alt = "ColourCodeGroup" -> ColourCodeGroup_parse(group, part)

\* parseAlternative that asks the fallback alternative like any other
RECURSIVE parseAlternative_fallbackAsked(_, _, _)
parseAlternative_fallbackAsked(I, group, part) ==
    ValueOr(Alternative_parse(GroupAlternatives[I], group, part),
            IF I < Len(GroupAlternatives)
            THEN parseAlternative_fallbackAsked(I + 1, group, part)
            ELSE PlainTextGroup(group))

RECURSIVE parseAlternative(_, _, _)
parseAlternative(I, group, part) ==
    LET alt == GroupAlternatives[I]
    IN  ValueOr(IF alt # FallbackAlternative THEN Alternative_parse(alt, group, part)
                ELSE None,
                IF I < Len(GroupAlternatives)
                THEN parseAlternative(I + 1, group, part)
                ELSE PlainTextGroup(group))

GroupParser_parse(group, part) == parseAlternative(1, group, part)

\* previousGroup.combine(currentGroup), dispatched on the alternative held
Group_combine(previousGroup, currentGroup) ==
    CASE previousGroup.kind = "TrendGroup" ->
            TrendGroup_combine(previousGroup, currentGroup)
      [] previousGroup.kind = "WindGroup" ->
            WindGroup_combine(previousGroup, currentGroup)
      [] previousGroup.kind = "VisibilityGroup" ->
            VisibilityGroup_combine(previousGroup, currentGroup)
      [] previousGroup.kind = "WindShearLowLayerGroup" ->
            WindShearLowLayerGroup_combine(previousGroup, currentGroup)
      [] previousGroup.kind = "PlainTextGroup" ->
            PlainTextGroup_combine(previousGroup, currentGroup)
      [] previousGroup.kind = "FixedGroup" ->
            FixedGroup_combine(previousGroup, currentGroup)
      [] previousGroup.kind = "LocationGroup" ->
            LocationGroup_combine(previousGroup, currentGroup)
      [] previousGroup.kind = "ReportTimeGroup" ->
            ReportTimeGroup_combine(previousGroup, currentGroup)
      [] previousGroup.kind = "CloudGroup" ->
            CloudGroup_combine(previousGroup, currentGroup)
      [] previousGroup.kind = "WeatherGroup" ->
            WeatherGroup_combine(previousGroup, currentGroup)
      [] previousGroup.kind = "TemperatureGroup" ->
            TemperatureGroup_combine(previousGroup, currentGroup)
      [] previousGroup.kind = "TemperatureForecastGroup" ->
            TemperatureForecastGroup_combine(previousGroup, currentGroup)
      [] previousGroup.kind = "PressureGroup" ->
            PressureGroup_combine(previousGroup, currentGroup)
      [] previousGroup.kind = "RunwayVisualRangeGroup" ->
            RunwayVisualRangeGroup_combine(previousGroup, currentGroup)
      [] previousGroup.kind = "RunwayStateGroup" ->
            RunwayStateGroup_combine(previousGroup, currentGroup)
      [] previousGroup.kind = "RainfallGroup" ->
            RainfallGroup_combine(previousGroup, currentGroup)
      [] previousGroup.kind = "SeaSurfaceGroup" ->
            SeaSurfaceGroup_combine(previousGroup, currentGroup)
      [] previousGroup.kind = "ColourCodeGroup" ->
            ColourCodeGroup_combine(previousGroup, currentGroup)

(***************************************************************************)
(* getSyntaxGroup                                                          *)
(***************************************************************************)
SyntaxGroups == {"OTHER", "METAR", "SPECI", "TAF", "COR", "AMD", "LOCATION",
                 "REPORT_TIME", "TIME_SPAN", "CNL", "NIL", "RMK",
                 "MAINTENANCE_INDICATOR"}

\* getSyntaxGroup that looks at the type of a trend group only
getSyntaxGroup_anyTimeSpan(group) ==
    IF group.kind = "FixedGroup"
    THEN IF group.t \in {"METAR", "SPECI", "TAF", "COR", "AMD", "NIL", "CNL",
                         "RMK", "MAINTENANCE_INDICATOR"}
         THEN group.t
         ELSE "OTHER"
    ELSE IF group.kind = "LocationGroup" THEN "LOCATION"
    ELSE IF group.kind = "ReportTimeGroup" THEN "REPORT_TIME"
    ELSE IF group.kind = "TrendGroup"
    THEN IF group.t = "TIME_SPAN" THEN "TIME_SPAN" ELSE "OTHER"
    ELSE "OTHER"

getSyntaxGroup(group) ==
    IF group.kind = "FixedGroup"
    THEN IF group.t \in {"METAR", "SPECI", "TAF", "COR", "AMD", "NIL", "CNL",
                         "RMK", "MAINTENANCE_INDICATOR"}
         THEN group.t
         ELSE "OTHER"
    ELSE IF group.kind = "LocationGroup" THEN "LOCATION"
    ELSE IF group.kind = "ReportTimeGroup" THEN "REPORT_TIME"
    ELSE IF group.kind = "TrendGroup"
    THEN IF TrendGroup_isTimeSpanGroup(group) THEN "TIME_SPAN" ELSE "OTHER"
    ELSE "OTHER"

(***************************************************************************)
(* GenericParser::Status                                                   *)
(***************************************************************************)
States == {"REPORT_TYPE_OR_LOCATION", "CORRECTION", "LOCATION", "REPORT_TIME",
           "TIME_SPAN", "REPORT_BODY_BEGIN_METAR",
           "REPORT_BODY_BEGIN_METAR_REPEAT_PARSE", "REPORT_BODY_METAR",
           "REPORT_BODY_BEGIN_TAF", "REPORT_BODY_TAF", "REMARK_METAR",
           "REMARK_TAF", "MAINTENANCE_INDICATOR", "NIL", "CNL", "ERROR"}

Errors == {"NONE", "EMPTY_REPORT", "EXPECTED_REPORT_TYPE_OR_LOCATION",
           "EXPECTED_LOCATION", "EXPECTED_REPORT_TIME", "EXPECTED_TIME_SPAN",
           "UNEXPECTED_REPORT_END", "UNEXPECTED_GROUP_AFTER_NIL",
           "UNEXPECTED_GROUP_AFTER_CNL",
           "UNEXPECTED_GROUP_AFTER_MAINTENANCE_INDICATOR",
           "UNEXPECTED_NIL_OR_CNL_IN_REPORT_BODY", "AMD_ALLOWED_IN_TAF_ONLY",
           "CNL_ALLOWED_IN_TAF_ONLY",
           "MAINTENANCE_INDICATOR_ALLOWED_IN_METAR_ONLY", "INTERNAL_PARSER_STATE"}

ReportTypes == {"UNKNOWN", "METAR", "TAF"}

\* Status()
Status_init ==
    [state |-> "REPORT_TYPE_OR_LOCATION", reportType |-> "UNKNOWN", error |-> "NONE"]

setState(st, s) == [st EXCEPT !.state = s]
setError(st, e) == [st EXCEPT !.state = "ERROR", !.error = e]
setReportType(st, rt) == [st EXCEPT !.reportType = rt]
isError(st) == st.error # "NONE"
isReparseRequired(st) == st.state = "REPORT_BODY_BEGIN_METAR_REPEAT_PARSE"

\* getReportPart that files the maintenance indicator state under the METAR body
getReportPart_maintenanceAsMetar(st) ==
    CASE st.state \in {"REPORT_TYPE_OR_LOCATION", "CORRECTION", "LOCATION",
                       "REPORT_TIME", "TIME_SPAN"} -> "HEADER"
      [] st.state \in {"REPORT_BODY_BEGIN_METAR",
                       "REPORT_BODY_BEGIN_METAR_REPEAT_PARSE",
                       "REPORT_BODY_METAR", "MAINTENANCE_INDICATOR"} -> "METAR"
      [] st.state \in {"REPORT_BODY_BEGIN_TAF", "REPORT_BODY_TAF"} -> "TAF"
      [] st.state \in {"REMARK_METAR", "REMARK_TAF"} -> "RMK"
      [] OTHER -> "UNKNOWN"

getReportPart(st) ==
    CASE st.state \in {"REPORT_TYPE_OR_LOCATION", "CORRECTION", "LOCATION",
                       "REPORT_TIME", "TIME_SPAN"} -> "HEADER"
      [] st.state \in {"REPORT_BODY_BEGIN_METAR",
                       "REPORT_BODY_BEGIN_METAR_REPEAT_PARSE",
                       "REPORT_BODY_METAR"} -> "METAR"
      [] st.state \in {"REPORT_BODY_BEGIN_TAF", "REPORT_BODY_TAF"} -> "TAF"
      [] st.state \in {"REMARK_METAR", "REMARK_TAF"} -> "RMK"
      [] st.state \in {"MAINTENANCE_INDICATOR", "NIL", "CNL", "ERROR"} -> "UNKNOWN"
      [] OTHER -> "UNKNOWN"

transitionFromReportTypeOrLocation(st, group) ==
    CASE group \in {"METAR", "SPECI"} ->
            setState(setReportType(st, "METAR"), "CORRECTION")
      [] group = "TAF" -> setState(setReportType(st, "TAF"), "CORRECTION")
      [] group = "LOCATION" -> setState(st, "REPORT_TIME")
      [] OTHER -> setError(st, "EXPECTED_REPORT_TYPE_OR_LOCATION")

\* transitionFromCorrecton without the check of the report type
transitionFromCorrecton_noTypeCheck(st, group) ==
    CASE group \in {"AMD", "COR"} -> setState(st, "LOCATION")
      [] group = "LOCATION" -> setState(st, "REPORT_TIME")
      [] OTHER -> setError(st, "EXPECTED_LOCATION")

transitionFromCorrecton(st, group) ==
    CASE group = "AMD" ->
            IF setState(st, "LOCATION").reportType # "TAF"
            THEN setError(setState(st, "LOCATION"), "AMD_ALLOWED_IN_TAF_ONLY")
            ELSE setState(st, "LOCATION")
      [] group = "COR" -> setState(st, "LOCATION")
      [] group = "LOCATION" -> setState(st, "REPORT_TIME")
      [] OTHER -> setError(st, "EXPECTED_LOCATION")

\* transitionFromReportTime that takes a time span whatever the report type
transitionFromReportTime_timeSpanAccepted(st, group) ==
    CASE group = "REPORT_TIME" ->
            IF st.reportType = "METAR" THEN setState(st, "REPORT_BODY_BEGIN_METAR")
            ELSE setState(st, "TIME_SPAN")
      [] group = "TIME_SPAN" -> setState(st, "REPORT_BODY_BEGIN_TAF")
      [] group = "NIL" -> setState(st, "NIL")
      [] OTHER -> setError(st, "EXPECTED_REPORT_TIME")

transitionFromReportTime(st, group) ==
    CASE group = "REPORT_TIME" ->
            IF st.reportType = "METAR" THEN setState(st, "REPORT_BODY_BEGIN_METAR")
            ELSE setState(st, "TIME_SPAN")
      [] group = "TIME_SPAN" ->
            IF st.reportType = "TAF" THEN setState(st, "REPORT_BODY_BEGIN_TAF")
            ELSE setError(st, "EXPECTED_REPORT_TIME")
      [] group = "NIL" -> setState(st, "NIL")
      [] OTHER -> setError(st, "EXPECTED_REPORT_TIME")

\* transitionFromTimeSpan that goes on to the METAR body without a second parse
transitionFromTimeSpan_noReparse(st, group) ==
    CASE group = "TIME_SPAN" ->
            setState(setReportType(st, "TAF"), "REPORT_BODY_BEGIN_TAF")
      [] group = "NIL" -> setState(st, "NIL")
      [] OTHER ->
            IF st.reportType = "UNKNOWN"
            THEN setState(setReportType(st, "METAR"), "REPORT_BODY_METAR")
            ELSE setError(st, "EXPECTED_TIME_SPAN")

\* transitionFromTimeSpan that begins a METAR body whatever the report type
transitionFromTimeSpan_anyType(st, group) ==
    CASE group = "TIME_SPAN" ->
            setState(setReportType(st, "TAF"), "REPORT_BODY_BEGIN_TAF")
      [] group = "NIL" -> setState(st, "NIL")
      [] OTHER ->
            setState(setReportType(st, "METAR"),
                     "REPORT_BODY_BEGIN_METAR_REPEAT_PARSE")

transitionFromTimeSpan(st, group) ==
    CASE group = "TIME_SPAN" ->
            setState(setReportType(st, "TAF"), "REPORT_BODY_BEGIN_TAF")
      [] group = "NIL" -> setState(st, "NIL")
      [] OTHER ->
            IF st.reportType = "UNKNOWN"
            THEN setState(setReportType(st, "METAR"),
                          "REPORT_BODY_BEGIN_METAR_REPEAT_PARSE")
            ELSE setError(st, "EXPECTED_TIME_SPAN")

\* transitionFromReportBodyBeginMetar that leaves the state as it is for a
\* group of the body
transitionFromReportBodyBeginMetar_stateKept(st, group) ==
    CASE group = "NIL" -> setState(st, "NIL")
      [] group = "CNL" -> setError(st, "CNL_ALLOWED_IN_TAF_ONLY")
      [] group = "RMK" -> setState(st, "REMARK_METAR")
      [] group = "MAINTENANCE_INDICATOR" -> setState(st, "MAINTENANCE_INDICATOR")
      [] OTHER -> st

transitionFromReportBodyBeginMetar(st, group) ==
    CASE group = "NIL" -> setState(st, "NIL")
      [] group = "CNL" -> setError(st, "CNL_ALLOWED_IN_TAF_ONLY")
      [] group = "RMK" -> setState(st, "REMARK_METAR")
      [] group = "MAINTENANCE_INDICATOR" -> setState(st, "MAINTENANCE_INDICATOR")
      [] OTHER -> setState(st, "REPORT_BODY_METAR")

transitionFromReportBodyMetar(st, group) ==
    CASE group = "RMK" -> setState(st, "REMARK_METAR")
      [] group = "MAINTENANCE_INDICATOR" -> setState(st, "MAINTENANCE_INDICATOR")
      [] group \in {"NIL", "CNL"} ->
            setError(st, "UNEXPECTED_NIL_OR_CNL_IN_REPORT_BODY")
      [] OTHER -> st

\* transitionFromReportBodyBeginTaf that takes the maintenance indicator as
\* the METAR does
transitionFromReportBodyBeginTaf_maintenance(st, group) ==
    CASE group = "NIL" -> setState(st, "NIL")
      [] group = "CNL" -> setState(st, "CNL")
      [] group = "RMK" -> setState(st, "REMARK_TAF")
      [] group = "MAINTENANCE_INDICATOR" -> setState(st, "MAINTENANCE_INDICATOR")
      [] OTHER -> setState(st, "REPORT_BODY_TAF")

transitionFromReportBodyBeginTaf(st, group) ==
    CASE group = "NIL" -> setState(st, "NIL")
      [] group = "CNL" -> setState(st, "CNL")
      [] group = "RMK" -> setState(st, "REMARK_TAF")
      [] group = "MAINTENANCE_INDICATOR" ->
            setError(st, "MAINTENANCE_INDICATOR_ALLOWED_IN_METAR_ONLY")
      [] OTHER -> setState(st, "REPORT_BODY_TAF")

\* transitionFromReportBodyTaf that takes CNL anywhere in the body
transitionFromReportBodyTaf_cnl(st, group) ==
    CASE group = "RMK" -> setState(st, "REMARK_TAF")
      [] group = "NIL" -> setError(st, "UNEXPECTED_NIL_OR_CNL_IN_REPORT_BODY")
      [] group = "CNL" -> setState(st, "CNL")
      [] group = "MAINTENANCE_INDICATOR" ->
            setError(st, "MAINTENANCE_INDICATOR_ALLOWED_IN_METAR_ONLY")
      [] OTHER -> st

transitionFromReportBodyTaf(st, group) ==
    CASE group = "RMK" -> setState(st, "REMARK_TAF")
      [] group \in {"NIL", "CNL"} ->
            setError(st, "UNEXPECTED_NIL_OR_CNL_IN_REPORT_BODY")
      [] group = "MAINTENANCE_INDICATOR" ->
            setError(st, "MAINTENANCE_INDICATOR_ALLOWED_IN_METAR_ONLY")
      [] OTHER -> st

\* transition without the case of the TAF remarks
transition_noRemarkTaf(st, group) ==
    CASE st.state = "REPORT_TYPE_OR_LOCATION" ->
            transitionFromReportTypeOrLocation(st, group)
      [] st.state = "CORRECTION" -> transitionFromCorrecton(st, group)
      [] st.state = "LOCATION" ->
            IF group = "LOCATION" THEN setState(st, "REPORT_TIME")
            ELSE setError(st, "EXPECTED_LOCATION")
      [] st.state = "REPORT_TIME" -> transitionFromReportTime(st, group)
      [] st.state = "TIME_SPAN" -> transitionFromTimeSpan(st, group)
      [] st.state \in {"REPORT_BODY_BEGIN_METAR",
                       "REPORT_BODY_BEGIN_METAR_REPEAT_PARSE"} ->
            transitionFromReportBodyBeginMetar(st, group)
      [] st.state = "REPORT_BODY_METAR" -> transitionFromReportBodyMetar(st, group)
      [] st.state = "REPORT_BODY_BEGIN_TAF" ->
            transitionFromReportBodyBeginTaf(st, group)
      [] st.state = "REPORT_BODY_TAF" -> transitionFromReportBodyTaf(st, group)
      [] st.state = "REMARK_METAR" ->
            IF group = "MAINTENANCE_INDICATOR"
            THEN setState(st, "MAINTENANCE_INDICATOR") ELSE st
      [] st.state = "MAINTENANCE_INDICATOR" ->
            setError(st, "UNEXPECTED_GROUP_AFTER_MAINTENANCE_INDICATOR")
      [] st.state = "NIL" -> setError(st, "UNEXPECTED_GROUP_AFTER_NIL")
      [] st.state = "CNL" -> setError(st, "UNEXPECTED_GROUP_AFTER_CNL")
      [] st.state = "ERROR" -> st
      [] OTHER -> setError(st, "INTERNAL_PARSER_STATE")

\* transition that stays in NIL, CNL and MAINTENANCE_INDICATOR whatever follows
transition_terminalStatesStay(st, group) ==
    CASE st.state = "REPORT_TYPE_OR_LOCATION" ->
            transitionFromReportTypeOrLocation(st, group)
      [] st.state = "CORRECTION" -> transitionFromCorrecton(st, group)
      [] st.state = "LOCATION" ->
            IF group = "LOCATION" THEN setState(st, "REPORT_TIME")
            ELSE setError(st, "EXPECTED_LOCATION")
      [] st.state = "REPORT_TIME" -> transitionFromReportTime(st, group)
      [] st.state = "TIME_SPAN" -> transitionFromTimeSpan(st, group)
      [] st.state \in {"REPORT_BODY_BEGIN_METAR",
                       "REPORT_BODY_BEGIN_METAR_REPEAT_PARSE"} ->
            transitionFromReportBodyBeginMetar(st, group)
      [] st.state = "REPORT_BODY_METAR" -> transitionFromReportBodyMetar(st, group)
      [] st.state = "REPORT_BODY_BEGIN_TAF" ->
            transitionFromReportBodyBeginTaf(st, group)
      [] st.state = "REPORT_BODY_TAF" -> transitionFromReportBodyTaf(st, group)
      [] st.state = "REMARK_METAR" ->
            IF group = "MAINTENANCE_INDICATOR"
            THEN setState(st, "MAINTENANCE_INDICATOR") ELSE st
      [] st.state = "REMARK_TAF" ->
            IF group = "MAINTENANCE_INDICATOR"
            THEN setError(st, "MAINTENANCE_INDICATOR_ALLOWED_IN_METAR_ONLY") ELSE st
      [] st.state \in {"MAINTENANCE_INDICATOR", "NIL", "CNL", "ERROR"} -> st
      [] OTHER -> setError(st, "INTERNAL_PARSER_STATE")

transition(st, group) ==
    CASE st.state = "REPORT_TYPE_OR_LOCATION" ->
            transitionFromReportTypeOrLocation(st, group)
      [] st.state = "CORRECTION" -> transitionFromCorrecton(st, group)
      [] st.state = "LOCATION" ->
            IF group = "LOCATION" THEN setState(st, "REPORT_TIME")
            ELSE setError(st, "EXPECTED_LOCATION")
      [] st.state = "REPORT_TIME" -> transitionFromReportTime(st, group)
      [] st.state = "TIME_SPAN" -> transitionFromTimeSpan(st, group)
      [] st.state \in {"REPORT_BODY_BEGIN_METAR",
                       "REPORT_BODY_BEGIN_METAR_REPEAT_PARSE"} ->
            transitionFromReportBodyBeginMetar(st, group)
      [] st.state = "REPORT_BODY_METAR" -> transitionFromReportBodyMetar(st, group)
      [] st.state = "REPORT_BODY_BEGIN_TAF" ->
            transitionFromReportBodyBeginTaf(st, group)
      [] st.state = "REPORT_BODY_TAF" -> transitionFromReportBodyTaf(st, group)
      [] st.state = "REMARK_METAR" ->
            IF group = "MAINTENANCE_INDICATOR"
            THEN setState(st, "MAINTENANCE_INDICATOR") ELSE st
      [] st.state = "REMARK_TAF" ->
            IF group = "MAINTENANCE_INDICATOR"
            THEN setError(st, "MAINTENANCE_INDICATOR_ALLOWED_IN_METAR_ONLY") ELSE st
      [] st.state = "MAINTENANCE_INDICATOR" ->
            setError(st, "UNEXPECTED_GROUP_AFTER_MAINTENANCE_INDICATOR")
      [] st.state = "NIL" -> setError(st, "UNEXPECTED_GROUP_AFTER_NIL")
      [] st.state = "CNL" -> setError(st, "UNEXPECTED_GROUP_AFTER_CNL")
      [] st.state = "ERROR" -> st
      [] OTHER -> setError(st, "INTERNAL_PARSER_STATE")

\* finalTransition that reports an empty report when only the type was read
finalTransition_emptyAfterType(st) ==
    CASE st.state \in {"REPORT_BODY_METAR", "REPORT_BODY_TAF", "REMARK_METAR",
                       "REMARK_TAF", "MAINTENANCE_INDICATOR", "NIL", "CNL",
                       "ERROR"} -> st
      [] st.state \in {"REPORT_TYPE_OR_LOCATION", "CORRECTION"} ->
            setError(st, "EMPTY_REPORT")
      [] st.state \in {"LOCATION", "REPORT_TIME", "TIME_SPAN",
                       "REPORT_BODY_BEGIN_METAR",
                       "REPORT_BODY_BEGIN_METAR_REPEAT_PARSE",
                       "REPORT_BODY_BEGIN_TAF"} ->
            setError(st, "UNEXPECTED_REPORT_END")
      [] OTHER -> setError(st, "INTERNAL_PARSER_STATE")

\* finalTransition that lets a report end right after the header of a TAF
finalTransition_bodyBeginTaf(st) ==
    CASE st.state \in {"REPORT_BODY_METAR", "REPORT_BODY_BEGIN_TAF",
                       "REPORT_BODY_TAF", "REMARK_METAR", "REMARK_TAF",
                       "MAINTENANCE_INDICATOR", "NIL", "CNL", "ERROR"} -> st
      [] st.state = "REPORT_TYPE_OR_LOCATION" -> setError(st, "EMPTY_REPORT")
      [] st.state \in {"CORRECTION", "LOCATION", "REPORT_TIME", "TIME_SPAN",
                       "REPORT_BODY_BEGIN_METAR",
                       "REPORT_BODY_BEGIN_METAR_REPEAT_PARSE"} ->
            setError(st, "UNEXPECTED_REPORT_END")
      [] OTHER -> setError(st, "INTERNAL_PARSER_STATE")

finalTransition(st) ==
    CASE st.state \in {"REPORT_BODY_METAR", "REPORT_BODY_TAF", "REMARK_METAR",
                       "REMARK_TAF", "MAINTENANCE_INDICATOR", "NIL", "CNL",
                       "ERROR"} -> st
      [] st.state = "REPORT_TYPE_OR_LOCATION" -> setError(st, "EMPTY_REPORT")
      [] st.state \in {"CORRECTION", "LOCATION", "REPORT_TIME", "TIME_SPAN",
                       "REPORT_BODY_BEGIN_METAR",
                       "REPORT_BODY_BEGIN_METAR_REPEAT_PARSE",
                       "REPORT_BODY_BEGIN_TAF"} ->
            setError(st, "UNEXPECTED_REPORT_END")
      [] OTHER -> setError(st, "INTERNAL_PARSER_STATE")

(***************************************************************************)
(* The reports of the model.  std::sregex_token_iterator splits the report  *)
(* at "\\s+", so a report is a sequence of tokens without whitespace; only  *)
(* the first token can be empty (empty report or leading whitespace).       *)
(* Each token of TokenWords also occurs with the end marker '=' appended,   *)
(* and the end marker occurs as a token of its own and doubled.             *)
(***************************************************************************)
TokenWords == {
    <<"M", "E", "T", "A", "R">>,
    <<"S", "P", "E", "C", "I">>,
    <<"T", "A", "F">>,
    <<"A", "M", "D">>,
    <<"C", "O", "R">>,
    <<"N", "I", "L">>,
    <<"C", "N", "L">>,
    <<"R", "M", "K">>,
    <<"$">>,
    <<"K", "J", "F", "K">>,
    <<"1", "8", "1", "8", "3", "0", "Z">>,
    <<"1", "8", "1", "2", "/", "1", "9", "1", "2">>,
    <<"T", "E", "M", "P", "O">>,
    <<"1">>,
    <<"3", "/", "4", "S", "M">> }

endChar == "="

Tokens ==
    TokenWords \cup {Append(w, endChar) : w \in TokenWords}
               \cup {<<endChar>>, <<endChar, endChar>>}

(***************************************************************************)
(* GenericParser::parseInternal                                            *)
(***************************************************************************)
\* getLastGroup(result) / getLastGroup(extresult)
getLastGroup ==
    IF ~extendedResult
    THEN IF result.groups = <<>> THEN None
         ELSE Some(result.groups[Len(result.groups)])
    ELSE IF extresult.extgroups = <<>> THEN None
         ELSE Some(extresult.extgroups[Len(extresult.extgroups)][1])

\* combineWithLastGroup in which the last group takes in a fixed group
combineWithLastGroup_fixedTakenIn(lastGroup, group) ==
    IF ~HasValue(lastGroup) THEN None
    ELSE IF group.kind = "FixedGroup" THEN lastGroup
    ELSE Group_combine(Value(lastGroup), group)

combineWithLastGroup(lastGroup, group) ==
    IF ~HasValue(lastGroup) THEN None
    ELSE Group_combine(Value(lastGroup), group)

\* saveToResult that appends the combined group instead of replacing the last
saveToResult_appendCombined(res, group, combinedGroup) ==
    IF HasValue(combinedGroup)
    THEN [res EXCEPT !.groups = Append(res.groups, Value(combinedGroup))]
    ELSE [res EXCEPT !.groups = Append(res.groups, group)]

\* saveToResult(Result &, GroupType, const std::optional<GroupType> &)
saveToResult(res, group, combinedGroup) ==
    IF HasValue(combinedGroup)
    THEN [res EXCEPT !.groups[Len(res.groups)] = Value(combinedGroup)]
    ELSE [res EXCEPT !.groups = Append(res.groups, group)]

\* saveToResult for the extended result that joins the source strings without
\* the space
saveToExtResult_noSpace(extres, group, combinedGroup, part, str) ==
    IF HasValue(combinedGroup)
    THEN [extres EXCEPT !.extgroups[Len(extres.extgroups)] =
                <<Value(combinedGroup), part,
                  extres.extgroups[Len(extres.extgroups)][3] \o str>>]
    ELSE [extres EXCEPT !.extgroups = Append(extres.extgroups, <<group, part, str>>)]

\* saveToResult(ExtendedResult &, GroupType, const std::optional<GroupType> &,
\*              ReportPart, const std::string &)
saveToExtResult(extres, group, combinedGroup, part, str) ==
    IF HasValue(combinedGroup)
    THEN LET newGroupStr ==
                extres.extgroups[Len(extres.extgroups)][3] \o <<" ">> \o str
         IN  [extres EXCEPT !.extgroups[Len(extres.extgroups)] =
                                <<Value(combinedGroup), part, newGroupStr>>]
    ELSE [extres EXCEPT !.extgroups = Append(extres.extgroups, <<group, part, str>>)]

Init ==
    /\ pc = "loop"
    /\ extendedResult \in BOOLEAN
    /\ tokens = <<>>
    /\ iterAtEnd = FALSE
    /\ reportEnd = FALSE
    /\ status = Status_init
    /\ groupString = <<>>
    /\ reportPart = "UNKNOWN"
    /\ result = [groups |-> <<>>]
    /\ extresult = [extgroups |-> <<>>]
    /\ parseLog = <<>>
    /\ combines = 0
    /\ args = <<>>
    /\ ret = <<>>

\* The loop without !status.isError() in its condition
NextToken_noErrorCheck ==
    /\ pc = "loop"
    /\ Len(tokens) < MaxTokens
    /\ ~reportEnd
    /\ \E tok \in Tokens \cup (IF tokens = <<>> THEN {<<>>} ELSE {}) :
         \E undefinedBack \in BOOLEAN :
            LET seen == IF tok = <<>> THEN undefinedBack
                        ELSE tok[Len(tok)] = endChar
                str == IF tok # <<>> /\ seen THEN SubSeq(tok, 1, Len(tok) - 1)
                       ELSE tok
            IN  /\ tok # <<>> => undefinedBack = FALSE
                /\ tokens' = Append(tokens, tok)
                /\ reportEnd' = seen
                /\ IF Len(str) > 0
                   THEN /\ groupString' = str
                        /\ reportPart' = getReportPart(status)
                        /\ pc' = "parse"
                   ELSE /\ UNCHANGED <<groupString, reportPart>>
                        /\ pc' = "loop"
    /\ UNCHANGED <<extendedResult, iterAtEnd, status, result, extresult,
                   parseLog, combines>>
    /\ UNCHANGED <<args, ret>>

\* The loop that sees the end marker but leaves it in groupString
NextToken_keepEndChar ==
    /\ pc = "loop"
    /\ Len(tokens) < MaxTokens
    /\ ~reportEnd
    /\ ~isError(status)
    /\ \E tok \in Tokens \cup (IF tokens = <<>> THEN {<<>>} ELSE {}) :
         \E undefinedBack \in BOOLEAN :
            LET seen == IF tok = <<>> THEN undefinedBack
                        ELSE tok[Len(tok)] = endChar
            IN  /\ tok # <<>> => undefinedBack = FALSE
                /\ tokens' = Append(tokens, tok)
                /\ reportEnd' = seen
                /\ IF Len(tok) > 0
                   THEN /\ groupString' = tok
                        /\ reportPart' = getReportPart(status)
                        /\ pc' = "parse"
                   ELSE /\ UNCHANGED <<groupString, reportPart>>
                        /\ pc' = "loop"
    /\ UNCHANGED <<extendedResult, iterAtEnd, status, result, extresult,
                   parseLog, combines>>
    /\ UNCHANGED <<args, ret>>

\* while (iter != end && !reportEnd && !status.isError()): the iterator yields
\* the next token, the end marker is stripped, an empty groupString is skipped.
\* groupString.back() of an empty token is undefined: the end marker is seen
\* or not.
NextToken ==
    /\ pc = "loop"
    /\ Len(tokens) < MaxTokens
    /\ ~reportEnd
    /\ ~isError(status)
    /\ \E tok \in Tokens \cup (IF tokens = <<>> THEN {<<>>} ELSE {}) :
         \E undefinedBack \in BOOLEAN :
            LET seen == IF tok = <<>> THEN undefinedBack
                        ELSE tok[Len(tok)] = endChar
                str == IF tok # <<>> /\ seen THEN SubSeq(tok, 1, Len(tok) - 1)
                       ELSE tok
            IN  /\ tok # <<>> => undefinedBack = FALSE
                /\ tokens' = Append(tokens, tok)
                /\ reportEnd' = seen
                /\ IF Len(str) > 0
                   THEN /\ groupString' = str
                        /\ reportPart' = getReportPart(status)
                        /\ pc' = "parse"
                   ELSE /\ UNCHANGED <<groupString, reportPart>>
                        /\ pc' = "loop"
    /\ UNCHANGED <<extendedResult, iterAtEnd, status, result, extresult,
                   parseLog, combines>>
    /\ UNCHANGED <<args, ret>>

\* A pass in which a group that is not valid makes the status an error
PassOutcome_invalidIsError(group, part) ==
    [group |-> group, part |-> part,
     status |-> IF group.kind = "VisibilityGroup" /\ ~VisibilityGroup_isValid(group)
                THEN setError(status, "UNEXPECTED_REPORT_END")
                ELSE transition(status, getSyntaxGroup(group))]

\* status.transition(SyntaxGroupGetter(group)) for the group parsed under part
PassOutcome(group, part) ==
    [group |-> group, part |-> part,
     status |-> transition(status, getSyntaxGroup(group))]

\* The outcome of one pass of the do ... while (status.isReparseRequired())
ParsePass ==
    PassOutcome(GroupParser_parse(groupString, getReportPart(status)),
                getReportPart(status))

\* A pass of the do-while after which the token is parsed again
Reparse ==
    /\ pc = "parse"
    /\ \E pass \in {ParsePass} :
        /\ isReparseRequired(pass.status)
        /\ status' = pass.status
        /\ parseLog' = Append(parseLog, [token |-> Len(tokens), part |-> pass.part,
                                         group |-> pass.group,
                                         before |-> status, after |-> pass.status])
    /\ UNCHANGED <<pc, extendedResult, tokens, iterAtEnd, reportEnd, groupString,
                   reportPart, result, extresult, combines>>
    /\ UNCHANGED <<args, ret>>

\* The last pass of the do-while, the combine with the last group, the save
\* to the result and iter++
ParseAndSave ==
    /\ pc = "parse"
    /\ \E pass \in {ParsePass} :
        /\ ~isReparseRequired(pass.status)
        /\ \E combinedGroup \in {combineWithLastGroup(getLastGroup, pass.group)} :
            /\ status' = pass.status
            /\ parseLog' = Append(parseLog, [token |-> Len(tokens),
                                     part |-> pass.part, group |-> pass.group,
                                     before |-> status, after |-> pass.status])
            /\ IF ~extendedResult
               THEN /\ result' = saveToResult(result, pass.group, combinedGroup)
                    /\ UNCHANGED extresult
               ELSE /\ extresult' = saveToExtResult(extresult, pass.group,
                                                    combinedGroup, reportPart,
                                                    groupString)
                    /\ UNCHANGED result
            /\ combines' = IF HasValue(combinedGroup) THEN combines + 1
                           ELSE combines
    /\ pc' = "loop"
    /\ UNCHANGED <<extendedResult, tokens, iterAtEnd, reportEnd, groupString,
                   reportPart>>
    /\ UNCHANGED <<args, ret>>

\* The loop is left: the iterator is at the end of the report, or the end
\* marker was seen, or the status is an error.  Then finalTransition and
\* saveToResult(result, reportType, error).
Finish ==
    /\ pc = "loop"
    /\ \E atEnd \in BOOLEAN :
        /\ Len(tokens) = MaxTokens => atEnd
        /\ atEnd \/ reportEnd \/ isError(status)
        /\ iterAtEnd' = atEnd
    /\ status' = finalTransition(status)
    /\ IF ~extendedResult
       THEN /\ result' = [reportType |-> status'.reportType,
                          error |-> status'.error, groups |-> result.groups]
            /\ UNCHANGED extresult
       ELSE /\ extresult' = [reportType |-> status'.reportType,
                             error |-> status'.error,
                             extgroups |-> extresult.extgroups]
            /\ UNCHANGED result
    /\ pc' = "done"
    /\ UNCHANGED <<extendedResult, tokens, reportEnd, groupString, reportPart,
                   parseLog, combines>>
    /\ UNCHANGED <<args, ret>>

Next == NextToken \/ Reparse \/ ParseAndSave \/ Finish

Spec == Init /\ [][Next]_vars

\* The result returned by parse() or extendedParse()
Returned == IF extendedResult THEN extresult ELSE result

\* The groups of the result, whichever entry point was called
ResultGroups ==
    IF extendedResult
    THEN [i \in 1..Len(extresult.extgroups) |-> extresult.extgroups[i][1]]
    ELSE result.groups

(***************************************************************************)
(* parseInternal as a function of the report: the loop of parseInternal run *)
(* over a sequence of tokens.  LoopState is the value of the locals after   *)
(* the tokens read so far.  groupString.back() of an empty first token is   *)
(* taken not to be the end marker.                                          *)
(***************************************************************************)
LoopStart ==
    [status |-> Status_init, reportEnd |-> FALSE,
     result |-> [groups |-> <<>>], extresult |-> [extgroups |-> <<>>],
     parseLog |-> <<>>, combines |-> 0]

\* one pass of the do-while from the status st
PassRecord(st, group, part, n) ==
    [token |-> n, part |-> part, group |-> group, before |-> st,
     after |-> transition(st, getSyntaxGroup(group))]

PassFrom(st, str, n) ==
    PassRecord(st, GroupParser_parse(str, getReportPart(st)), getReportPart(st), n)

\* the passes of do ... while (status.isReparseRequired()) for one token
RECURSIVE DoWhile(_, _, _)
DoWhileAfter(pass, str, n) ==
    IF isReparseRequired(pass.after) THEN <<pass>> \o DoWhile(pass.after, str, n)
    ELSE <<pass>>

DoWhile(st, str, n) == DoWhileAfter(PassFrom(st, str, n), str, n)

\* getLastGroup(result) / getLastGroup(extresult) of a loop state
LastGroupOf(ls, extended) ==
    IF ~extended
    THEN IF ls.result.groups = <<>> THEN None
         ELSE Some(ls.result.groups[Len(ls.result.groups)])
    ELSE IF ls.extresult.extgroups = <<>> THEN None
         ELSE Some(ls.extresult.extgroups[Len(ls.extresult.extgroups)][1])

\* combineWithLastGroup and saveToResult after the passes of a token
SaveAfter(ls, passes, combinedGroup, part, str, seen, extended) ==
    [status |-> passes[Len(passes)].after,
     reportEnd |-> seen,
     result |-> IF extended THEN ls.result
                ELSE saveToResult(ls.result, passes[Len(passes)].group,
                                  combinedGroup),
     extresult |-> IF ~extended THEN ls.extresult
                   ELSE saveToExtResult(ls.extresult, passes[Len(passes)].group,
                                        combinedGroup, part, str),
     parseLog |-> ls.parseLog \o passes,
     combines |-> IF HasValue(combinedGroup) THEN ls.combines + 1
                  ELSE ls.combines]

TokenPasses(ls, passes, str, seen, extended) ==
    SaveAfter(ls, passes,
              combineWithLastGroup(LastGroupOf(ls, extended),
                                   passes[Len(passes)].group),
              getReportPart(ls.status), str, seen, extended)

\* the body of the while loop for the n-th token tok
LoopBody(ls, tok, n, extended) ==
    LET seen == tok # <<>> /\ tok[Len(tok)] = endChar
        str == IF seen THEN SubSeq(tok, 1, Len(tok) - 1) ELSE tok
    IN  IF Len(str) > 0
        THEN TokenPasses(ls, DoWhile(ls.status, str, n), str, seen, extended)
        ELSE [ls EXCEPT !.reportEnd = seen]

\* while (iter != end && !reportEnd && !status.isError()) over the first n tokens
RECURSIVE Loop(_, _, _)
LoopNext(ls, report, n, extended) ==
    IF ls.reportEnd \/ isError(ls.status) THEN ls
    ELSE LoopBody(ls, report[n], n, extended)

Loop(report, n, extended) ==
    IF n = 0 THEN LoopStart
    ELSE LoopNext(Loop(report, n - 1, extended), report, n, extended)

\* status.finalTransition() and saveToResult(result, reportType, error)
LoopResult(ls, st, extended) ==
    IF ~extended
    THEN [reportType |-> st.reportType, error |-> st.error,
          groups |-> ls.result.groups]
    ELSE [reportType |-> st.reportType, error |-> st.error,
          extgroups |-> ls.extresult.extgroups]

LoopEnd(ls, extended) == LoopResult(ls, finalTransition(ls.status), extended)

parseInternal(report, extended) ==
    LoopEnd(Loop(report, Len(report), extended), extended)

(***************************************************************************)
(* The body of a report.  The parse is taken up after a header without type *)
(* keyword has been read: a location and a report time, where the next      *)
(* token decides the type, or these and the time span of a TAF.  The        *)
(* variables hold what the loop of parseInternal leaves after the header,   *)
(* and the tokens that follow are tokens of a METAR body after the first    *)
(* header and tokens of a TAF body after the second.                        *)
(***************************************************************************)
MaxBodyTokens == 4

HeaderTimeSpan == <<"1", "8", "1", "2", "/", "1", "9", "1", "2">>

BodyHeaders == {
    <<<<"K", "J", "F", "K">>, <<"1", "8", "1", "8", "3", "0", "Z">>>>,
    <<<<"K", "J", "F", "K">>, <<"1", "8", "1", "8", "3", "0", "Z">>, HeaderTimeSpan>>}

\* the tokens of a METAR body and of a TAF body
MetarBodyWords == {
    <<"W", "S">>,
    <<"A", "L", "L">>,
    <<"R", "W", "Y">>,
    <<"R", "2", "2">>,
    <<"R", "W", "Y", "2", "2", "L">>,
    <<"R", "4", "5">>,
    <<"1">>,
    <<"3", "/", "4", "S", "M">>,
    <<"M", "1", "/", "4", "S", "M">>}

TafBodyWords == {
    <<"P", "R", "O", "B", "3", "0">>,
    <<"P", "R", "O", "B", "4", "0">>,
    <<"T", "E", "M", "P", "O">>,
    <<"I", "N", "T", "E", "R">>,
    <<"B", "E", "C", "M", "G">>,
    <<"1", "8", "1", "8", "/", "1", "8", "2", "4">>,
    <<"1">>,
    <<"3", "/", "4", "S", "M">>}

\* the header the report began with, and the tokens that can follow it
HeaderLength == IF Len(tokens) >= 3 /\ tokens[3] = HeaderTimeSpan THEN 3 ELSE 2

BodyWords == IF HeaderLength = 3 THEN TafBodyWords ELSE MetarBodyWords

InitBody ==
    /\ pc = "loop"
    /\ extendedResult \in BOOLEAN
    /\ tokens \in BodyHeaders
    /\ iterAtEnd = FALSE
    /\ groupString = tokens[Len(tokens)]
    /\ \E ls \in {Loop(tokens, Len(tokens), extendedResult)} :
          /\ reportEnd = ls.reportEnd
          /\ status = ls.status
          /\ reportPart = ls.parseLog[Len(ls.parseLog)].part
          /\ result = ls.result
          /\ extresult = ls.extresult
          /\ parseLog = ls.parseLog
          /\ combines = ls.combines
    /\ args = <<>>
    /\ ret = <<>>

\* while (iter != end && !reportEnd && !status.isError()) for a token of the body
NextBodyToken ==
    /\ pc = "loop"
    /\ Len(tokens) - HeaderLength < MaxBodyTokens
    /\ ~reportEnd
    /\ ~isError(status)
    /\ \E tok \in BodyWords :
         LET seen == tok[Len(tok)] = endChar
             str == IF seen THEN SubSeq(tok, 1, Len(tok) - 1) ELSE tok
         IN  /\ tokens' = Append(tokens, tok)
             /\ reportEnd' = seen
             /\ IF Len(str) > 0
                THEN /\ groupString' = str
                     /\ reportPart' = getReportPart(status)
                     /\ pc' = "parse"
                ELSE /\ UNCHANGED <<groupString, reportPart>>
                     /\ pc' = "loop"
    /\ UNCHANGED <<extendedResult, iterAtEnd, status, result, extresult,
                   parseLog, combines>>
    /\ UNCHANGED <<args, ret>>

NextBody == NextBodyToken \/ Reparse \/ ParseAndSave \/ Finish

SpecBody == InitBody /\ [][NextBody]_vars

(***************************************************************************)
(* Functions of the library called on their own.  No report is parsed: the  *)
(* variables of parseInternal stay as they are before the first token, pc   *)
(* is "call" before the function is applied to args and "return" after.     *)
(***************************************************************************)
NoParse ==
    /\ extendedResult = FALSE
    /\ tokens = <<>>
    /\ iterAtEnd = FALSE
    /\ reportEnd = FALSE
    /\ status = Status_init
    /\ groupString = <<>>
    /\ reportPart = "UNKNOWN"
    /\ result = [groups |-> <<>>]
    /\ extresult = [extgroups |-> <<>>]
    /\ parseLog = <<>>
    /\ combines = 0

NoParseStep ==
    UNCHANGED <<extendedResult, tokens, iterAtEnd, reportEnd, status, groupString,
                reportPart, result, extresult, parseLog, combines>>

(***************************************************************************)
(* Distance::fromIntegerAndFraction.  The arguments are distances the       *)
(* constructors and the from...String functions give.                       *)
(***************************************************************************)
MileStrings == {
    <<"3", "/", "4", "S", "M">>,
    <<"1", "/", "2", "S", "M">>,
    <<"0", "/", "4", "S", "M">>,
    <<"1", "/", "0", "S", "M">>,
    <<"M", "1", "/", "4", "S", "M">>,
    <<"P", "6", "S", "M">>,
    <<"1", "0", "S", "M">>,
    <<"1", "1", "/", "2", "S", "M">>,
    <<"/", "/", "/", "/", "S", "M">>}

Distances ==
    {Value(Distance_fromMileString(s)) : s \in MileStrings}
    \cup {Value(Distance_fromMeterString(<<"1", "6", "0", "0">>)),
          Value(Distance_fromHeightString(<<"0", "1", "5">>)),
          Distance_ofValue(1, "STATUTE_MILES"), Distance_ofValue(0, "STATUTE_MILES"),
          Distance_ofValue(2, "FEET"), Distance_ofUnit("STATUTE_MILES"),
          Distance_default}

InitDistance ==
    /\ pc = "call"
    /\ args \in [integer : Distances, fraction : Distances]
    /\ ret = <<>>
    /\ NoParse

FromIntegerAndFraction ==
    /\ pc = "call"
    /\ ret' = Distance_fromIntegerAndFraction(args.integer, args.fraction)
    /\ pc' = "return"
    /\ UNCHANGED args
    /\ NoParseStep

NextDistance == FromIntegerAndFraction

SpecDistance == InitDistance /\ [][NextDistance]_vars

(***************************************************************************)
(* getSyntaxGroup called on its own.  The group given is the group of one   *)
(* of the tests of getSyntaxGroup (the parse function of one class asked    *)
(* for one string under one report part), or what GroupParser::parse gives  *)
(* for one token under one report part, or what combining the groups of two *)
(* tokens gives, as parseInternal hands them to getSyntaxGroup.             *)
(***************************************************************************)
\* the calls of the tests: the class asked, the string and the report part
SyntaxGroupTests == <<
    <<"FixedGroup", <<"M", "E", "T", "A", "R">>, "HEADER">>,
    <<"FixedGroup", <<"S", "P", "E", "C", "I">>, "HEADER">>,
    <<"FixedGroup", <<"T", "A", "F">>, "HEADER">>,
    <<"FixedGroup", <<"C", "O", "R">>, "HEADER">>,
    <<"FixedGroup", <<"A", "M", "D">>, "HEADER">>,
    <<"FixedGroup", <<"N", "I", "L">>, "HEADER">>,
    <<"FixedGroup", <<"C", "N", "L">>, "HEADER">>,
    <<"FixedGroup", <<"R", "M", "K">>, "METAR">>,
    <<"LocationGroup", <<"U", "K", "L", "L">>, "HEADER">>,
    <<"ReportTimeGroup", <<"0", "8", "1", "2", "3", "0", "Z">>, "HEADER">>,
    <<"TrendGroup", <<"0", "8", "1", "2", "/", "0", "8", "2", "4">>, "HEADER">>,
    <<"FixedGroup", <<"A", "U", "T", "O">>, "METAR">>,
    <<"FixedGroup", <<"S", "N", "O", "C", "L", "O">>, "METAR">>,
    <<"FixedGroup", <<"C", "A", "V", "O", "K">>, "METAR">>,
    <<"FixedGroup", <<"N", "S", "W">>, "METAR">>,
    <<"TrendGroup", <<"N", "O", "S", "I", "G">>, "METAR">>,
    <<"TrendGroup", <<"T", "E", "M", "P", "O">>, "METAR">>,
    <<"TrendGroup", <<"B", "E", "C", "M", "G">>, "METAR">>,
    <<"TrendGroup", <<"I", "N", "T", "E", "R">>, "METAR">>,
    <<"TrendGroup", <<"F", "M", "1", "9", "1", "4", "4", "5">>, "TAF">>,
    <<"TrendGroup", <<"T", "L", "1", "4", "4", "5">>, "METAR">>,
    <<"TrendGroup", <<"P", "R", "O", "B", "4", "0">>, "TAF">>,
    <<"PlainTextGroup", <<"A", "1", "B", "2", "C", "3", "D", "4">>, "METAR">>,
    <<"WindGroup", <<"2", "7", "0", "0", "5", "K", "T">>, "METAR">>,
    <<"WindGroup", <<"2", "4", "0", "V", "2", "5", "0">>, "METAR">>,
    <<"VisibilityGroup", <<"9", "9", "9", "9", "N", "D", "V">>, "METAR">>,
    <<"CloudGroup", <<"B", "K", "N", "0", "2", "4">>, "METAR">>,
    <<"CloudGroup", <<"C", "L", "R">>, "METAR">>,
    <<"CloudGroup", <<"S", "K", "C">>, "METAR">>,
    <<"CloudGroup", <<"N", "S", "C">>, "METAR">>,
    <<"CloudGroup", <<"N", "C", "D">>, "METAR">>,
    <<"CloudGroup", <<"V", "V", "0", "1", "5">>, "METAR">>,
    <<"WeatherGroup", <<"+", "S", "H", "S", "N">>, "METAR">>,
    <<"TemperatureGroup", <<"0", "7", "/", "0", "2">>, "METAR">>,
    <<"TemperatureForecastGroup", <<"T", "X", "0", "7", "/", "1", "1", "0", "5", "Z">>, "TAF">>,
    <<"PressureGroup", <<"Q", "1", "0", "3", "3">>, "METAR">>,
    <<"RunwayVisualRangeGroup", <<"R", "3", "0", "/", "5", "0", "0", "0", "V", "P", "6", "0", "0", "0", "F", "T", "/", "U">>, "METAR">>,
    <<"RunwayStateGroup", <<"R", "1", "6", "/", "7", "5", "0", "1", "5", "5">>, "METAR">>,
    <<"RainfallGroup", <<"R", "F", "0", "0", ".", "0", "/", "0", "0", "0", ".", "0">>, "METAR">>,
    <<"SeaSurfaceGroup", <<"W", "1", "5", "/", "S", "4">>, "METAR">>,
    <<"ColourCodeGroup", <<"A", "M", "B">>, "METAR">> >>

\* the group of a test: the parse function of the class named, asked alone
TestedGroup(test) ==
    [strings |-> <<test[2]>>, part |-> test[3],
     group |-> Value(Alternative_parse(test[1], test[2], test[3]))]

\* the strings of the tests, and strings of groups the tests leave out
SyntaxWords == {
    <<"M", "E", "T", "A", "R">>,
    <<"S", "P", "E", "C", "I">>,
    <<"T", "A", "F">>,
    <<"C", "O", "R">>,
    <<"A", "M", "D">>,
    <<"N", "I", "L">>,
    <<"C", "N", "L">>,
    <<"R", "M", "K">>,
    <<"U", "K", "L", "L">>,
    <<"0", "8", "1", "2", "3", "0", "Z">>,
    <<"0", "8", "1", "2", "/", "0", "8", "2", "4">>,
    <<"A", "U", "T", "O">>,
    <<"S", "N", "O", "C", "L", "O">>,
    <<"C", "A", "V", "O", "K">>,
    <<"N", "S", "W">>,
    <<"N", "O", "S", "I", "G">>,
    <<"T", "E", "M", "P", "O">>,
    <<"B", "E", "C", "M", "G">>,
    <<"I", "N", "T", "E", "R">>,
    <<"F", "M", "1", "9", "1", "4", "4", "5">>,
    <<"T", "L", "1", "4", "4", "5">>,
    <<"P", "R", "O", "B", "4", "0">>,
    <<"A", "1", "B", "2", "C", "3", "D", "4">>,
    <<"2", "7", "0", "0", "5", "K", "T">>,
    <<"2", "4", "0", "V", "2", "5", "0">>,
    <<"9", "9", "9", "9", "N", "D", "V">>,
    <<"B", "K", "N", "0", "2", "4">>,
    <<"C", "L", "R">>,
    <<"S", "K", "C">>,
    <<"N", "S", "C">>,
    <<"N", "C", "D">>,
    <<"V", "V", "0", "1", "5">>,
    <<"+", "S", "H", "S", "N">>,
    <<"0", "7", "/", "0", "2">>,
    <<"T", "X", "0", "7", "/", "1", "1", "0", "5", "Z">>,
    <<"Q", "1", "0", "3", "3">>,
    <<"R", "3", "0", "/", "5", "0", "0", "0", "V", "P", "6", "0", "0", "0", "F", "T", "/", "U">>,
    <<"R", "1", "6", "/", "7", "5", "0", "1", "5", "5">>,
    <<"R", "F", "0", "0", ".", "0", "/", "0", "0", "0", ".", "0">>,
    <<"W", "1", "5", "/", "S", "4">>,
    <<"A", "M", "B">>,
    <<"$">>,
    <<"P", "R", "O", "B", "3", "0">>,
    <<"1", "8", "1", "2", "/", "1", "9", "1", "2">>,
    <<"A", "T", "1", "8", "3", "0">>,
    <<"1">>,
    <<"3", "/", "4", "S", "M">>,
    <<"W", "S">>,
    <<"Z", "Z", "Z", "Z", "Z">>}

ParsedOnce(word, part) ==
    [strings |-> <<word>>, part |-> part, group |-> GroupParser_parse(word, part)]

\* the group of the first word combined with the group of the second, where
\* they combine; the group of the first word alone where they do not
ParsedTwice(first, second, part) ==
    IF HasValue(Group_combine(first.group, GroupParser_parse(second, part)))
    THEN [strings |-> Append(first.strings, second), part |-> part,
          group |-> Value(Group_combine(first.group, GroupParser_parse(second, part)))]
    ELSE first

InitSyntaxGroup ==
    /\ pc = "call"
    /\ \/ \E i \in 1..Len(SyntaxGroupTests) : args = TestedGroup(SyntaxGroupTests[i])
       \/ \E word \in SyntaxWords, part \in ReportParts :
            \E first \in {ParsedOnce(word, part)} :
               \/ args = first
               \/ \E second \in SyntaxWords : args = ParsedTwice(first, second, part)
    /\ ret = <<>>
    /\ NoParse

GetSyntaxGroup ==
    /\ pc = "call"
    /\ ret' = getSyntaxGroup(args.group)
    /\ pc' = "return"
    /\ UNCHANGED args
    /\ NoParseStep

NextSyntaxGroup == GetSyntaxGroup

SpecSyntaxGroup == InitSyntaxGroup /\ [][NextSyntaxGroup]_vars

(***************************************************************************)
(* Trend groups on their own: the tokens of a trend are parsed under one    *)
(* report part, each group is combined with the last group saved and saved  *)
(* as parseInternal saves it.  args holds the part and the tokens read, ret *)
(* the groups saved.                                                        *)
(***************************************************************************)
MaxTrendTokens == 3

TrendWords == {
    <<"B", "E", "C", "M", "G">>,
    <<"T", "E", "M", "P", "O">>,
    <<"I", "N", "T", "E", "R">>,
    <<"N", "O", "S", "I", "G">>,
    <<"F", "M", "1", "2", "0", "0">>,
    <<"T", "L", "1", "3", "0", "0">>,
    <<"A", "T", "1", "4", "0", "0">>,
    <<"F", "M", "1", "5", "0", "0">>,
    <<"T", "L", "1", "6", "0", "0">>,
    <<"P", "R", "O", "B", "3", "0">>,
    <<"P", "R", "O", "B", "4", "0">>,
    <<"1", "8", "1", "8", "/", "1", "8", "2", "4">>,
    <<"1", "9", "0", "0", "/", "1", "9", "0", "6">>,
    <<"F", "M", "1", "8", "1", "2", "0", "0">>}

InitTrend ==
    /\ pc = "call"
    /\ \E part \in {"METAR", "TAF"} : args = [part |-> part, strings |-> <<>>]
    /\ ret = [groups |-> <<>>]
    /\ NoParse

TrendToken ==
    /\ pc = "call"
    /\ Len(args.strings) < MaxTrendTokens
    /\ \E word \in TrendWords :
        /\ HasValue(TrendGroup_parse(word, args.part))
        /\ \E group \in {Value(TrendGroup_parse(word, args.part))} :
             \E lastGroup \in {IF ret.groups = <<>> THEN None
                               ELSE Some(ret.groups[Len(ret.groups)])} :
                ret' = saveToResult(ret, group, combineWithLastGroup(lastGroup, group))
        /\ args' = [args EXCEPT !.strings = Append(@, word)]
    /\ UNCHANGED pc
    /\ NoParseStep

NextTrend == TrendToken

SpecTrend == InitTrend /\ [][NextTrend]_vars

(***************************************************************************)
(* WindGroup::parse and WindGroup::isValid on their own.  The token is      *)
(* written from its components as windRgx reads them: an optional wind      *)
(* shear height WSnnn/, a direction, a wind speed of two or three digits or *)
(* //, an optional gust G with two or three digits, and the unit KT.        *)
(***************************************************************************)
\* the greatest speed "[1-9]?\\d\\d" can write
MaxSpeed == 999

DigitChars == <<"0", "1", "2", "3", "4", "5", "6", "7", "8", "9">>

DigitChar(n) == DigitChars[n + 1]

\* a speed as "[1-9]?\\d\\d" matches it
SpeedString(n) ==
    IF n < 100 THEN <<DigitChar(n \div 10), DigitChar(n % 10)>>
    ELSE <<DigitChar(n \div 100), DigitChar((n \div 10) % 10), DigitChar(n % 10)>>

WindSpeeds == {None} \cup {Some(n) : n \in 0..MaxSpeed}

GustSpeeds == {None} \cup {Some(n) : n \in {0, 1, 50, 100, MaxSpeed - 1, MaxSpeed}}

WindShearHeights == {None, Some(<<"0", "0", "0">>), Some(<<"0", "2", "0">>)}

WindDirections == {<<"2", "7", "0">>, <<"V", "R", "B">>, <<"3", "7", "0">>}

WindString(w) ==
    (IF HasValue(w.height) THEN <<"W", "S">> \o Value(w.height) \o <<"/">> ELSE <<>>)
    \o w.dir
    \o (IF HasValue(w.wind) THEN SpeedString(Value(w.wind)) ELSE <<"/", "/">>)
    \o (IF HasValue(w.gust) THEN <<"G">> \o SpeedString(Value(w.gust)) ELSE <<>>)
    \o <<"K", "T">>

InitWind ==
    /\ pc = "call"
    /\ args \in [height : WindShearHeights, dir : WindDirections,
                 wind : WindSpeeds, gust : GustSpeeds]
    /\ ret = <<>>
    /\ NoParse

\* WindGroup::parse(group, ReportPart::METAR) and isValid() of what it gives
WindIsValid ==
    /\ pc = "call"
    /\ \E group \in {WindGroup_parse(WindString(args), "METAR")} :
         ret' = [group |-> group,
                 valid |-> HasValue(group) /\ WindGroup_isValid(Value(group))]
    /\ pc' = "return"
    /\ UNCHANGED args
    /\ NoParseStep

NextWind == WindIsValid

SpecWind == InitWind /\ [][NextWind]_vars

TypeOK ==
    /\ pc \in {"loop", "parse", "done", "call", "return"}
    /\ status.state \in States
    /\ status.error \in Errors
    /\ status.reportType \in ReportTypes
    /\ reportPart \in ReportParts
    /\ Len(tokens) <= MaxTokens + MaxBodyTokens

(***************************************************************************)
(* Definitions shared by the properties                                    *)
(***************************************************************************)
\* groupString of a token: the token without a trailing end marker
StripEnd(tok) ==
    IF tok # <<>> /\ tok[Len(tok)] = endChar THEN SubSeq(tok, 1, Len(tok) - 1)
    ELSE tok

LastParse == parseLog[Len(parseLog)]

HeaderStates == {"REPORT_TYPE_OR_LOCATION", "CORRECTION", "LOCATION",
                 "REPORT_TIME", "TIME_SPAN"}
AcceptStates == {"REPORT_BODY_METAR", "REPORT_BODY_TAF", "REMARK_METAR",
                 "REMARK_TAF", "MAINTENANCE_INDICATOR", "NIL", "CNL"}
RejectStates == HeaderStates \cup {"REPORT_BODY_BEGIN_METAR", "REPORT_BODY_BEGIN_TAF"}

\* the category the state machine sees in the pass about to be made
PassSyntaxGroup == getSyntaxGroup(ParsePass.group)

\* the state is TIME_SPAN of a report without type keyword and the token is
\* neither a time span nor NIL
ReparseCase ==
    /\ status.state = "TIME_SPAN"
    /\ status.reportType = "UNKNOWN"
    /\ PassSyntaxGroup \notin {"TIME_SPAN", "NIL"}

(***************************************************************************)
(* C1: once the status is an error, no further token is read or parsed, the *)
(* groups of the result stay as they are, and the error returned at the end *)
(* of the parse is that error: finalTransition does not replace it.         *)
(***************************************************************************)
C1_ErrorStopsParse ==
    [][status.error # "NONE" =>
        /\ tokens' = tokens
        /\ parseLog' = parseLog
        /\ ResultGroups' = ResultGroups
        /\ status'.error = status.error
        /\ pc' = "done"
        /\ Returned'.error = status.error]_vars

\* a parse ended by a syntax error of a token while the report had more tokens
C1_Witness ==
    /\ pc = "done"
    /\ ~iterAtEnd /\ ~reportEnd
    /\ Returned.error \notin {"NONE", "EMPTY_REPORT", "UNEXPECTED_REPORT_END"}
    /\ Len(ResultGroups) >= 2

(***************************************************************************)
(* C2: when the loop is left without error, the returned error is NONE      *)
(* exactly in the states METAR body, TAF body, METAR remarks, TAF remarks,  *)
(* maintenance indicator, NIL and CNL; in the start, correction, location,  *)
(* report time, time span and body-begin states it is EMPTY_REPORT or       *)
(* UNEXPECTED_REPORT_END.                                                  *)
(***************************************************************************)
C2_FinalError ==
    [][(pc = "loop" /\ pc' = "done" /\ ~isError(status)) =>
        /\ status.state \in AcceptStates \cup RejectStates
        /\ (Returned'.error = "NONE") <=> (status.state \in AcceptStates)
        /\ status.state \in RejectStates =>
                Returned'.error \in {"EMPTY_REPORT", "UNEXPECTED_REPORT_END"}]_vars

\* a report that ends right after the time span of a TAF header
C2_Witness ==
    /\ pc = "done"
    /\ Returned.error = "UNEXPECTED_REPORT_END"
    /\ Returned.reportType = "TAF"
    /\ Len(parseLog) > 0
    /\ getSyntaxGroup(LastParse.group) = "TIME_SPAN"

(***************************************************************************)
(* C3: in state TIME_SPAN of a report of unknown type, a token that is      *)
(* neither a time span nor NIL makes the type METAR and is parsed again     *)
(* under the part METAR before another token is read; the second pass adds  *)
(* exactly one group, the outcome of the second parse.                      *)
(***************************************************************************)
C3_Reparse ==
    [][/\ (pc = "parse" /\ ReparseCase) =>
            /\ pc' = "parse"
            /\ status'.reportType = "METAR"
            /\ getReportPart(status') = "METAR"
            /\ tokens' = tokens
            /\ groupString' = groupString
            /\ ResultGroups' = ResultGroups
       /\ (pc = "parse" /\ isReparseRequired(status)) =>
            /\ pc' = "loop"
            /\ tokens' = tokens
            /\ Len(ResultGroups') = Len(ResultGroups) + 1
            /\ ResultGroups'[Len(ResultGroups')] = GroupParser_parse(groupString, "METAR")
            /\ LastParse'.part = "METAR"
            /\ LastParse'.token = LastParse.token]_vars

\* a token was parsed twice, the two parses differ, the group of the second
\* parse is the last group of the result
C3_Witness ==
    /\ pc = "loop"
    /\ Len(parseLog) >= 2
    /\ parseLog[Len(parseLog) - 1].token = LastParse.token
    /\ parseLog[Len(parseLog) - 1].part = "HEADER"
    /\ LastParse.part = "METAR"
    /\ parseLog[Len(parseLog) - 1].group # LastParse.group
    /\ ResultGroups[Len(ResultGroups)] = LastParse.group

(***************************************************************************)
(* C4: a token read after the state machine has reached NIL, CNL or the     *)
(* maintenance indicator ends the parse with UNEXPECTED_GROUP_AFTER_NIL,    *)
(* UNEXPECTED_GROUP_AFTER_CNL or                                           *)
(* UNEXPECTED_GROUP_AFTER_MAINTENANCE_INDICATOR, whatever the token is,     *)
(* provided the token is not empty once a trailing end marker is removed.   *)
(***************************************************************************)
TerminalStates == {"NIL", "CNL", "MAINTENANCE_INDICATOR"}

TerminalError(s) ==
    CASE s = "NIL" -> "UNEXPECTED_GROUP_AFTER_NIL"
      [] s = "CNL" -> "UNEXPECTED_GROUP_AFTER_CNL"
      [] s = "MAINTENANCE_INDICATOR" ->
            "UNEXPECTED_GROUP_AFTER_MAINTENANCE_INDICATOR"

\* the tokens read after the pass k of the log
TokensAfterPass(k) == {i \in 1..Len(tokens) : parseLog[k].token < i}

C4_TerminalStates ==
    pc \in {"loop", "done"} =>
        \A k \in 1..Len(parseLog) :
            (/\ parseLog[k].after.state \in TerminalStates
             /\ \E i \in TokensAfterPass(k) : StripEnd(tokens[i]) # <<>>)
            => /\ status.error = TerminalError(parseLog[k].after.state)
               /\ pc = "done" => Returned.error = status.error

\* C4 as stated: every non-empty token read after NIL, CNL or the maintenance
\* indicator gives the error; the token "=" does not
C4_AnyNonEmptyToken ==
    pc \in {"loop", "done"} =>
        \A k \in 1..Len(parseLog) :
            (/\ parseLog[k].after.state \in TerminalStates
             /\ \E i \in TokensAfterPass(k) : tokens[i] # <<>>)
            => status.error = TerminalError(parseLog[k].after.state)

\* the report went on after CNL
C4_Witness ==
    /\ pc = "done"
    /\ Returned.error = "UNEXPECTED_GROUP_AFTER_CNL"
    /\ LastParse.before.state = "CNL"
    /\ LastParse.part = "UNKNOWN"

(***************************************************************************)
(* C5: the report parts under which the successive tokens are parsed, and   *)
(* the parts stored with the groups of the extended result, never go back:  *)
(* header, then body (METAR or TAF, never both), then remarks, then         *)
(* unknown.                                                                *)
(***************************************************************************)
PartRank(p) ==
    CASE p = "HEADER" -> 0
      [] p \in {"METAR", "TAF"} -> 1
      [] p = "RMK" -> 2
      [] p = "UNKNOWN" -> 3

PartsInOrder(p, q) ==
    /\ PartRank(p) <= PartRank(q)
    /\ PartRank(p) = PartRank(q) => p = q

C5_PartsMonotone ==
    /\ \A i, j \in 1..Len(parseLog) :
            i < j => PartsInOrder(parseLog[i].part, parseLog[j].part)
    /\ \A i, j \in 1..Len(extresult.extgroups) :
            i < j => PartsInOrder(extresult.extgroups[i][2], extresult.extgroups[j][2])

\* a report that went through header, body, remarks and unknown
C5_Witness ==
    /\ {parseLog[k].part : k \in 1..Len(parseLog)} = {"HEADER", "METAR", "RMK", "UNKNOWN"}
    /\ extendedResult
    /\ pc = "done"

(***************************************************************************)
(* C6: when the parse ends with the error NONE, the number of groups is the *)
(* number of tokens read, up to and including the first that carries the    *)
(* end marker, which are not empty once the end marker is removed, minus    *)
(* the number of combines.                                                 *)
(***************************************************************************)
C6_GroupCount ==
    (pc = "done" /\ Returned.error = "NONE") =>
        Len(ResultGroups) =
            Cardinality({i \in 1..Len(tokens) : StripEnd(tokens[i]) # <<>>}) - combines

\* C6 as stated: the non-empty tokens are counted as the report has them
C6_InputTokenCount ==
    (pc = "done" /\ Returned.error = "NONE") =>
        Len(ResultGroups) =
            Cardinality({i \in 1..Len(tokens) : tokens[i] # <<>>}) - combines

\* a report without error in which a group was combined with the last one
C6_Witness ==
    /\ pc = "done"
    /\ Returned.error = "NONE"
    /\ combines >= 1
    /\ Len(ResultGroups) >= 4

(***************************************************************************)
(* C7: in every state the parse reaches, the transition is defined for      *)
(* every token category and the final transition is defined, the outcome    *)
(* is a state of the machine, and the error INTERNAL_PARSER_STATE never     *)
(* arises.                                                                 *)
(***************************************************************************)
C7_TransitionTotal ==
    /\ status.state \in States
    /\ status.error \in Errors \ {"INTERNAL_PARSER_STATE"}
    /\ \A g \in SyntaxGroups :
            /\ transition(status, g).state \in States
            /\ transition(status, g).error \in Errors \ {"INTERNAL_PARSER_STATE"}
    /\ finalTransition(status).state \in States
    /\ finalTransition(status).error \in Errors \ {"INTERNAL_PARSER_STATE"}
    /\ pc = "done" => Returned.error # "INTERNAL_PARSER_STATE"

\* a token is about to be parsed in the TAF remarks, a state that transition
\* handles without a function of its own
C7_Witness ==
    /\ pc = "parse"
    /\ status.state = "REMARK_TAF"
    /\ Len(tokens) = MaxTokens

(***************************************************************************)
(* C8: AMD right after the type keyword is accepted, and then the location  *)
(* is expected, only when the type is TAF; after METAR or SPECI it ends the *)
(* parse with AMD_ALLOWED_IN_TAF_ONLY.                                     *)
(***************************************************************************)
C8_AmdInTafOnly ==
    \A k \in 1..Len(parseLog) :
        LET b == parseLog[k].before
            a == parseLog[k].after
        IN  getSyntaxGroup(parseLog[k].group) = "AMD" =>
                /\ (a.error = "NONE" /\ ~isReparseRequired(a)) =>
                        /\ b.state = "CORRECTION"
                        /\ b.reportType = "TAF"
                        /\ a = [state |-> "LOCATION", reportType |-> "TAF",
                                error |-> "NONE"]
                /\ (b.state = "CORRECTION" /\ b.reportType = "TAF") => a.error = "NONE"
                /\ (b.state = "CORRECTION" /\ b.reportType # "TAF") =>
                        /\ b.reportType = "METAR"
                        /\ a.error = "AMD_ALLOWED_IN_TAF_ONLY"
                        /\ k = Len(parseLog)
                        /\ pc = "done" => Returned.error = "AMD_ALLOWED_IN_TAF_ONLY"

\* SPECI AMD: the parse has ended with the error
C8_Witness ==
    /\ pc = "done"
    /\ Len(tokens) = 2
    /\ StripEnd(tokens[1]) = <<"S", "P", "E", "C", "I">>
    /\ StripEnd(tokens[2]) = <<"A", "M", "D">>
    /\ Returned.error = "AMD_ALLOWED_IN_TAF_ONLY"
    /\ Len(ResultGroups) = 2

(***************************************************************************)
(* C9: CNL is accepted only as the first token after the header of a TAF;   *)
(* as the first token of a METAR body it ends the parse with                *)
(* CNL_ALLOWED_IN_TAF_ONLY, later in a METAR or TAF body with               *)
(* UNEXPECTED_NIL_OR_CNL_IN_REPORT_BODY, and in a header state with an      *)
(* error as well.                                                          *)
(***************************************************************************)
C9_Cnl ==
    \A k \in 1..Len(parseLog) :
        LET b == parseLog[k].before
            a == parseLog[k].after
        IN  getSyntaxGroup(parseLog[k].group) = "CNL" =>
                /\ b.state \in HeaderStates \cup
                        {"REPORT_BODY_BEGIN_METAR", "REPORT_BODY_BEGIN_METAR_REPEAT_PARSE",
                         "REPORT_BODY_METAR", "REPORT_BODY_BEGIN_TAF", "REPORT_BODY_TAF"}
                /\ (a.error = "NONE" /\ ~isReparseRequired(a)) =>
                        (b.state = "REPORT_BODY_BEGIN_TAF" /\ a.state = "CNL")
                /\ b.state = "REPORT_BODY_BEGIN_TAF" =>
                        (a.state = "CNL" /\ a.error = "NONE")
                /\ b.state \in {"REPORT_BODY_BEGIN_METAR",
                                "REPORT_BODY_BEGIN_METAR_REPEAT_PARSE"} =>
                        a.error = "CNL_ALLOWED_IN_TAF_ONLY"
                /\ b.state \in {"REPORT_BODY_METAR", "REPORT_BODY_TAF"} =>
                        a.error = "UNEXPECTED_NIL_OR_CNL_IN_REPORT_BODY"
                /\ (b.state # "REPORT_BODY_BEGIN_TAF" /\ pc = "done") =>
                        /\ Returned.error = parseLog[Len(parseLog)].after.error
                        /\ Returned.error # "NONE"
                        /\ parseLog[Len(parseLog)].token = parseLog[k].token

\* a TAF cancelled right after its header
C9_Witness ==
    /\ pc = "done"
    /\ status.state = "CNL"
    /\ Returned.error = "NONE"
    /\ Returned.reportType = "TAF"

(***************************************************************************)
(* C10: the maintenance indicator is accepted only in the body or in the    *)
(* remarks of a METAR; in the body or in the remarks of a TAF it ends the   *)
(* parse with MAINTENANCE_INDICATOR_ALLOWED_IN_METAR_ONLY.                  *)
(***************************************************************************)
C10_MaintenanceIndicator ==
    \A k \in 1..Len(parseLog) :
        LET b == parseLog[k].before
            a == parseLog[k].after
        IN  getSyntaxGroup(parseLog[k].group) = "MAINTENANCE_INDICATOR" =>
                /\ (a.error = "NONE" /\ ~isReparseRequired(a)) =>
                        /\ b.state \in {"REPORT_BODY_BEGIN_METAR",
                                        "REPORT_BODY_BEGIN_METAR_REPEAT_PARSE",
                                        "REPORT_BODY_METAR", "REMARK_METAR"}
                        /\ b.reportType = "METAR"
                        /\ a.state = "MAINTENANCE_INDICATOR"
                /\ b.state \in {"REPORT_BODY_BEGIN_METAR",
                                "REPORT_BODY_BEGIN_METAR_REPEAT_PARSE",
                                "REPORT_BODY_METAR", "REMARK_METAR"} =>
                        (a.state = "MAINTENANCE_INDICATOR" /\ a.error = "NONE")
                /\ b.state \in {"REPORT_BODY_BEGIN_TAF", "REPORT_BODY_TAF",
                                "REMARK_TAF"} =>
                        /\ b.reportType = "TAF"
                        /\ a.error = "MAINTENANCE_INDICATOR_ALLOWED_IN_METAR_ONLY"
                        /\ k = Len(parseLog)
                        /\ pc = "done" => Returned.error = a.error

\* the maintenance indicator in the remarks of a TAF
C10_Witness ==
    /\ pc = "done"
    /\ Returned.error = "MAINTENANCE_INDICATOR_ALLOWED_IN_METAR_ONLY"
    /\ LastParse.before.state = "REMARK_TAF"
    /\ LastParse.part = "RMK"

(***************************************************************************)
(* C11: the error of the result is EMPTY_REPORT exactly when the result has *)
(* no groups, and the result has no groups exactly when no token was        *)
(* parsed, i.e. every token read was empty once its end marker was removed. *)
(***************************************************************************)
C11_EmptyReport ==
    pc = "done" =>
        /\ Returned.error = "EMPTY_REPORT" <=> ResultGroups = <<>>
        /\ ResultGroups = <<>> <=> parseLog = <<>>
        /\ parseLog = <<>> <=> \A i \in 1..Len(tokens) : StripEnd(tokens[i]) = <<>>

\* a report that is nothing but the end marker
C11_Witness ==
    /\ pc = "done"
    /\ tokens = <<<<endChar>>>>
    /\ Returned.error = "EMPTY_REPORT"
    /\ ResultGroups = <<>>

(***************************************************************************)
(* C12: a token that ends with the end marker ends the report and is parsed *)
(* without it, and the result is the result of parseInternal for the report *)
(* cut off after that token with the end marker removed, provided the token *)
(* without its end marker does not itself end with the end marker.          *)
(***************************************************************************)
\* the last token read carries the end marker
EndMarked == tokens # <<>> /\ tokens[Len(tokens)] # <<>>
             /\ tokens[Len(tokens)][Len(tokens[Len(tokens)])] = endChar

\* the report cut off after its last token, the end marker removed; a token
\* that becomes empty leaves only whitespace and is no token of the cut report
WithoutEndMarker(report) ==
    LET str == StripEnd(report[Len(report)])
    IN  IF str = <<>> /\ Len(report) > 1 THEN SubSeq(report, 1, Len(report) - 1)
        ELSE [report EXCEPT ![Len(report)] = str]

EndMarkerOutcome ==
    /\ reportEnd
    /\ pc = "parse" => groupString = StripEnd(tokens[Len(tokens)])
    /\ pc = "done" =>
          Returned = parseInternal(WithoutEndMarker(tokens), extendedResult)

C12_EndMarker ==
    (EndMarked /\ StripEnd(tokens[Len(tokens)]) = StripEnd(StripEnd(tokens[Len(tokens)])))
        => EndMarkerOutcome

\* C12 as stated: for every token that ends with the end marker
C12_AnyEndMarkedToken == EndMarked => EndMarkerOutcome

\* a report of several groups ended by a token that carries the end marker
C12_Witness ==
    /\ pc = "done"
    /\ EndMarked
    /\ Len(tokens) >= 3
    /\ LastParse.token = Len(tokens)
    /\ Returned.error = "NONE"
    /\ Returned = parseInternal(WithoutEndMarker(tokens), extendedResult)

(***************************************************************************)
(* C13: in a report that starts with a location, the type returned is TAF   *)
(* exactly when the token after the report time is a time span, METAR       *)
(* exactly when that token is neither a time span nor NIL, and UNKNOWN      *)
(* otherwise; a time span where the report time is expected is accepted     *)
(* only when the type is already TAF and gives EXPECTED_REPORT_TIME         *)
(* otherwise.                                                               *)
(***************************************************************************)
\* the report starts with a location
LocationFirst ==
    /\ parseLog # <<>>
    /\ parseLog[1].before.state = "REPORT_TYPE_OR_LOCATION"
    /\ getSyntaxGroup(parseLog[1].group) = "LOCATION"

\* the categories of the token parsed after the report time, as first seen
AfterReportTime ==
    {getSyntaxGroup(parseLog[i].group) :
        i \in {j \in 1..Len(parseLog) : parseLog[j].before.state = "TIME_SPAN"}}

C13_TypeOfLocationFirst ==
    /\ (pc = "done" /\ LocationFirst) =>
          /\ Returned.reportType = "TAF" <=> "TIME_SPAN" \in AfterReportTime
          /\ Returned.reportType = "METAR" <=>
                AfterReportTime \ {"TIME_SPAN", "NIL"} # {}
          /\ Returned.reportType = "UNKNOWN" <=> AfterReportTime \subseteq {"NIL"}
    /\ \A i \in 1..Len(parseLog) :
          (/\ parseLog[i].before.state = "REPORT_TIME"
           /\ getSyntaxGroup(parseLog[i].group) = "TIME_SPAN") =>
                /\ parseLog[i].after.error = "NONE" <=>
                      parseLog[i].before.reportType = "TAF"
                /\ parseLog[i].before.reportType # "TAF" =>
                      parseLog[i].after.error = "EXPECTED_REPORT_TIME"
                /\ parseLog[i].before.reportType = "TAF" =>
                      parseLog[i].after.state = "REPORT_BODY_BEGIN_TAF"

\* a location, a report time and a time span: a TAF without type keyword
C13_Witness ==
    /\ pc = "done"
    /\ LocationFirst
    /\ Len(parseLog) >= 4
    /\ "TIME_SPAN" \in AfterReportTime
    /\ Returned.reportType = "TAF"
    /\ Returned.error = "NONE"

(***************************************************************************)
(* C14: when a token has been parsed, the outcome of combining the last     *)
(* group with the new group, if there is one, replaces the last group and   *)
(* the number of groups stays; otherwise the new group is appended.  The    *)
(* groups before the last are left as they are, and in the extended result  *)
(* the source string of a replaced group is the previous string, one space  *)
(* and the new token.                                                       *)
(***************************************************************************)
\* the groups before the last one, with their parts and source strings
BeforeLast(res) ==
    IF extendedResult THEN SubSeq(res.extgroups, 1, Len(res.extgroups) - 1)
    ELSE SubSeq(res.groups, 1, Len(res.groups) - 1)

SavedAs(group, combinedGroup) ==
    IF HasValue(combinedGroup)
    THEN /\ Len(ResultGroups') = Len(ResultGroups)
         /\ ResultGroups'[Len(ResultGroups')] = Value(combinedGroup)
         /\ BeforeLast(Returned') = BeforeLast(Returned)
         /\ extendedResult =>
               extresult'.extgroups[Len(extresult'.extgroups)][3] =
                  extresult.extgroups[Len(extresult.extgroups)][3]
                     \o <<" ">> \o groupString
    ELSE /\ Len(ResultGroups') = Len(ResultGroups) + 1
         /\ ResultGroups'[Len(ResultGroups')] = group
         /\ BeforeLast(Returned') = (IF extendedResult THEN extresult.extgroups
                                     ELSE result.groups)
         /\ extendedResult =>
               extresult'.extgroups[Len(extresult'.extgroups)][3] = groupString

C14_CombineOrAppend ==
    [][(pc = "parse" /\ pc' = "loop") =>
            SavedAs(LastParse'.group,
                    combineWithLastGroup(getLastGroup, LastParse'.group))]_vars

\* the extended result after a token was combined into the group before it,
\* which is not the first group
C14_Witness ==
    /\ pc = "loop"
    /\ extendedResult
    /\ combines >= 1
    /\ Len(extresult.extgroups) >= 4
    /\ Len(extresult.extgroups) < Len(tokens)
    /\ LastParse.token = Len(tokens)
    /\ extresult.extgroups[Len(extresult.extgroups)][1] # LastParse.group
    /\ extresult.extgroups[Len(extresult.extgroups)][3] =
          tokens[Len(tokens) - 1] \o <<" ">> \o tokens[Len(tokens)]

(***************************************************************************)
(* C15: in a TAF body PROB30 or PROB40 followed by a trend type is merged   *)
(* with it when the type is TEMPO or INTER and not when it is BECMG; the    *)
(* merged group has that type and the probability; a time span that follows *)
(* gives the same group its from and till times; a token after that which   *)
(* is no trend becomes a group of its own.                                  *)
(***************************************************************************)
ProbabilityOf(tok) ==
    IF tok = <<"P", "R", "O", "B", "3", "0">> THEN "PROB_30"
    ELSE IF tok = <<"P", "R", "O", "B", "4", "0">> THEN "PROB_40"
    ELSE "NONE"

TrendTypeOf(tok) ==
    IF tok = <<"T", "E", "M", "P", "O">> THEN "TEMPO"
    ELSE IF tok = <<"I", "N", "T", "E", "R">> THEN "INTER"
    ELSE IF tok = <<"B", "E", "C", "M", "G">> THEN "BECMG"
    ELSE "NONE"

\* the n-th token before the one being parsed, a token of the TAF body
Before(n) ==
    IF Len(tokens) - n > HeaderLength /\ HeaderLength = 3
    THEN tokens[Len(tokens) - n] ELSE <<>>

\* a token has been parsed in the TAF body and is saved by this step
TafBodySave == pc = "parse" /\ pc' = "loop" /\ reportPart = "TAF"

ProbAndTrendType ==
    (TafBodySave /\ ProbabilityOf(Before(1)) # "NONE"
                 /\ TrendTypeOf(groupString) # "NONE") =>
        IF TrendTypeOf(groupString) \in {"TEMPO", "INTER"}
        THEN /\ Len(ResultGroups') = Len(ResultGroups)
             /\ ResultGroups'[Len(ResultGroups')] =
                   [TrendGroup_default EXCEPT !.t = TrendTypeOf(groupString),
                                              !.prob = ProbabilityOf(Before(1))]
        ELSE /\ ResultGroups' =
                   Append(ResultGroups, [TrendGroup_default EXCEPT !.t = "BECMG"])
             /\ ResultGroups[Len(ResultGroups)] =
                   [TrendGroup_default EXCEPT !.prob = ProbabilityOf(Before(1))]

ProbTrendTypeAndTimeSpan ==
    (TafBodySave /\ ProbabilityOf(Before(2)) # "NONE"
                 /\ TrendTypeOf(Before(1)) \in {"TEMPO", "INTER"}
                 /\ groupString = <<"1", "8", "1", "8", "/", "1", "8", "2", "4">>) =>
        /\ Len(ResultGroups') = Len(ResultGroups)
        /\ ResultGroups'[Len(ResultGroups')] =
              [kind |-> "TrendGroup", t |-> TrendTypeOf(Before(1)),
               prob |-> ProbabilityOf(Before(2)),
               tFrom |-> Some([dayValue |-> Some(18), hourValue |-> 18,
                               minuteValue |-> 0]),
               tTill |-> Some([dayValue |-> Some(18), hourValue |-> 24,
                               minuteValue |-> 0]),
               tAt |-> None]

TokenAfterTrend ==
    (TafBodySave /\ ProbabilityOf(Before(3)) # "NONE"
                 /\ TrendTypeOf(Before(2)) \in {"TEMPO", "INTER"}
                 /\ Before(1) = <<"1", "8", "1", "8", "/", "1", "8", "2", "4">>
                 /\ LastParse'.group.kind # "TrendGroup") =>
        ResultGroups' = Append(ResultGroups, LastParse'.group)

C15_ProbabilityTrend ==
    [][ProbAndTrendType /\ ProbTrendTypeAndTimeSpan /\ TokenAfterTrend]_vars

\* PROB30 TEMPO 1818/1824 3/4SM after the header of a TAF: two groups
C15_Witness ==
    /\ pc = "loop"
    /\ tokens = <<<<"K", "J", "F", "K">>, <<"1", "8", "1", "8", "3", "0", "Z">>, <<"1", "8", "1", "2", "/", "1", "9", "1", "2">>, <<"P", "R", "O", "B", "3", "0">>, <<"T", "E", "M", "P", "O">>, <<"1", "8", "1", "8", "/", "1", "8", "2", "4">>, <<"3", "/", "4", "S", "M">>>>
    /\ Len(ResultGroups) = 5
    /\ ResultGroups[4].kind = "TrendGroup"
    /\ ResultGroups[4].t = "TEMPO"
    /\ ResultGroups[4].prob = "PROB_30"
    /\ HasValue(ResultGroups[4].tFrom)
    /\ HasValue(ResultGroups[4].tTill)
    /\ ResultGroups[5].kind = "VisibilityGroup"

(***************************************************************************)
(* C16: a token after WS that is neither ALL nor a runway, and a token      *)
(* after WS ALL that is not RWY, is not merged into the wind shear group;   *)
(* the group stays as it was, is not valid, and takes no later token up to  *)
(* the end of the parse.                                                    *)
(***************************************************************************)
WsToken == <<"W", "S">>
AllToken == <<"A", "L", "L">>
RwyToken == <<"R", "W", "Y">>

\* R or RWY, two digits and at most one of L, C, R
RunwayToken(tok) ==
    \E n \in {1, 3} :
        /\ Len(tok) \in {n + 2, n + 3}
        /\ SubSeq(tok, 1, n) = SubSeq(RwyToken, 1, n)
        /\ tok[n + 1] \in Digits /\ tok[n + 2] \in Digits
        /\ Len(tok) = n + 3 => tok[n + 3] \in {"L", "C", "R"}

\* the tokens of the METAR body read and saved so far
MetarBodySaved ==
    IF HeaderLength = 2 /\ pc # "parse" THEN (HeaderLength + 1)..Len(tokens) ELSE {}

\* WS tokens followed by a token that is neither ALL nor a runway
WsThenOther ==
    {i \in MetarBodySaved :
        /\ tokens[i] = WsToken
        /\ i + 1 \in MetarBodySaved
        /\ tokens[i + 1] # AllToken
        /\ ~RunwayToken(tokens[i + 1])}

\* WS ALL followed by a token that is not RWY
WsAllThenOther ==
    {i \in MetarBodySaved :
        /\ tokens[i] = WsToken
        /\ i + 2 \in MetarBodySaved
        /\ tokens[i + 1] = AllToken
        /\ tokens[i + 2] # RwyToken}

\* WS, and WS ALL, at the end of what has been read
WsPending ==
    {i \in MetarBodySaved :
        /\ tokens[i] = WsToken
        /\ i = Len(tokens)}

WsAllPending ==
    {i \in MetarBodySaved :
        /\ tokens[i] = WsToken
        /\ i + 1 = Len(tokens)
        /\ tokens[i + 1] = AllToken}

GroupsEqualTo(g) == {k \in 1..Len(ResultGroups) : ResultGroups[k] = g}

C16_WindShearNotMerged ==
    (HeaderLength = 2 /\ pc # "parse") =>
        /\ Cardinality(GroupsEqualTo(WindShearLowLayerGroup_default)) =
              Cardinality(WsThenOther \cup WsPending)
        /\ Cardinality(GroupsEqualTo([WindShearLowLayerGroup_default
                                        EXCEPT !.status = "INCOMPLETE_WS_ALL"])) =
              Cardinality(WsAllThenOther \cup WsAllPending)
        /\ \A k \in 1..Len(ResultGroups) :
              (/\ ResultGroups[k].kind = "WindShearLowLayerGroup"
               /\ ResultGroups[k].status # "COMPLETE") =>
                    /\ ~WindShearLowLayerGroup_isValid(ResultGroups[k])
                    /\ extendedResult =>
                          extresult.extgroups[k][3] =
                             (IF ResultGroups[k].status = "INCOMPLETE_WS" THEN WsToken
                              ELSE WsToken \o <<" ">> \o AllToken)

\* WS ALL R22 RWY in a METAR body: the group of WS ALL is left incomplete and
\* three groups follow the header
C16_Witness ==
    /\ pc = "done"
    /\ tokens = <<<<"K", "J", "F", "K">>, <<"1", "8", "1", "8", "3", "0", "Z">>, <<"W", "S">>, <<"A", "L", "L">>, <<"R", "2", "2">>, <<"R", "W", "Y">>>>
    /\ Len(ResultGroups) = 5
    /\ ResultGroups[3].kind = "WindShearLowLayerGroup"
    /\ ~WindShearLowLayerGroup_isValid(ResultGroups[3])
    /\ ResultGroups[4].kind = "PlainTextGroup"
    /\ ResultGroups[5].kind = "PlainTextGroup"

(***************************************************************************)
(* C17: in a METAR body WS followed by ALL and RWY is one complete wind     *)
(* shear group for all runways, and WS followed by a runway token (R or     *)
(* RWY, two digits, optionally L, C or R) is one complete group for that    *)
(* runway; the group is valid exactly when its runway is valid.             *)
(***************************************************************************)
\* a token has been parsed in the METAR body and is saved by this step
MetarBodySave ==
    pc = "parse" /\ pc' = "loop" /\ HeaderLength = 2 /\ Len(tokens) >= 4

\* the runway a runway token stands for
RunwayOf(tok) ==
    LET n == IF Len(tok) >= 3 /\ SubSeq(tok, 1, 3) = RwyToken THEN 3 ELSE 1
    IN  [rNumber |-> 10 * DigitValue(tok[n + 1]) + DigitValue(tok[n + 2]),
         rDesignator |-> IF Len(tok) = n + 2 THEN "NONE"
                         ELSE IF tok[n + 3] = "L" THEN "LEFT"
                         ELSE IF tok[n + 3] = "C" THEN "CENTER"
                         ELSE "RIGHT"]

\* the last group after the step is the group before it, completed with rw
CompletedWith(rw, str) ==
    /\ Len(ResultGroups') = Len(ResultGroups)
    /\ ResultGroups'[Len(ResultGroups')] =
          [kind |-> "WindShearLowLayerGroup", rw |-> rw, status |-> "COMPLETE"]
    /\ WindShearLowLayerGroup_isValid(ResultGroups'[Len(ResultGroups')]) <=>
          \/ rw.rNumber <= 36
          \/ rw.rNumber \in {88, 99} /\ rw.rDesignator = "NONE"
    /\ extendedResult => extresult'.extgroups[Len(extresult'.extgroups)][3] = str

C17_WindShearComplete ==
    [][/\ (MetarBodySave /\ tokens[Len(tokens) - 1] = WsToken
                         /\ RunwayToken(groupString)) =>
            CompletedWith(RunwayOf(groupString), WsToken \o <<" ">> \o groupString)
       /\ (MetarBodySave /\ Len(tokens) >= 5
                         /\ tokens[Len(tokens) - 2] = WsToken
                         /\ tokens[Len(tokens) - 1] = AllToken
                         /\ groupString = RwyToken) =>
            /\ CompletedWith([rNumber |-> 88, rDesignator |-> "NONE"],
                  WsToken \o <<" ">> \o AllToken \o <<" ">> \o RwyToken)
            /\ WindShearLowLayerGroup_isValid(ResultGroups'[Len(ResultGroups')])
      ]_vars

\* WS ALL RWY after the header: one complete and valid group for all runways
C17_Witness ==
    /\ pc = "loop"
    /\ extendedResult
    /\ tokens = <<<<"K", "J", "F", "K">>, <<"1", "8", "1", "8", "3", "0", "Z">>, <<"W", "S">>, <<"A", "L", "L">>, <<"R", "W", "Y">>>>
    /\ Len(ResultGroups) = 3
    /\ ResultGroups[3] = [kind |-> "WindShearLowLayerGroup",
                          rw |-> [rNumber |-> 88, rDesignator |-> "NONE"],
                          status |-> "COMPLETE"]
    /\ WindShearLowLayerGroup_isValid(ResultGroups[3])
    /\ extresult.extgroups[3][3] = WsToken \o <<" ">> \o AllToken \o <<" ">> \o RwyToken

(***************************************************************************)
(* C18: a complete wind shear group (WS ALL RWY, or WS and a runway) takes  *)
(* no further token: the token after it, be it ALL, RWY or another runway,  *)
(* becomes a group of its own and the wind shear group keeps its runway.    *)
(***************************************************************************)
\* the new group is appended behind a complete wind shear group for rw
AppendedAfter(rw) ==
    /\ ResultGroups[Len(ResultGroups)] =
          [kind |-> "WindShearLowLayerGroup", rw |-> rw, status |-> "COMPLETE"]
    /\ ResultGroups' = Append(ResultGroups, LastParse'.group)
    /\ groupString \in {AllToken, RwyToken} \/ RunwayToken(groupString) =>
          /\ LastParse'.group.kind = "PlainTextGroup"
          /\ LastParse'.group.text = groupString
    /\ extendedResult =>
          extresult'.extgroups[Len(extresult'.extgroups)][3] = groupString

C18_CompleteAbsorbsNothing ==
    [][/\ (MetarBodySave /\ Len(tokens) >= 5
                         /\ tokens[Len(tokens) - 2] = WsToken
                         /\ RunwayToken(tokens[Len(tokens) - 1])) =>
            AppendedAfter(RunwayOf(tokens[Len(tokens) - 1]))
       /\ (MetarBodySave /\ Len(tokens) >= 6
                         /\ tokens[Len(tokens) - 3] = WsToken
                         /\ tokens[Len(tokens) - 2] = AllToken
                         /\ tokens[Len(tokens) - 1] = RwyToken) =>
            AppendedAfter([rNumber |-> 88, rDesignator |-> "NONE"])
      ]_vars

\* WS R22 RWY22L ALL: the group of WS R22 keeps runway 22 and two groups follow
C18_Witness ==
    /\ pc = "loop"
    /\ tokens = <<<<"K", "J", "F", "K">>, <<"1", "8", "1", "8", "3", "0", "Z">>, <<"W", "S">>, <<"R", "2", "2">>, <<"R", "W", "Y", "2", "2", "L">>, <<"A", "L", "L">>>>
    /\ Len(ResultGroups) = 5
    /\ ResultGroups[3] = [kind |-> "WindShearLowLayerGroup",
                          rw |-> [rNumber |-> 22, rDesignator |-> "NONE"],
                          status |-> "COMPLETE"]
    /\ ResultGroups[4].kind = "PlainTextGroup"
    /\ ResultGroups[5].kind = "PlainTextGroup"

(***************************************************************************)
(* C19: a token of one digit in a METAR or TAF body is an incomplete        *)
(* visibility.  A fraction of statute miles right after it, without         *)
(* modifier and with numerator and denominator other than zero, makes the   *)
(* two one valid visibility of integer and fraction; a fraction with a      *)
(* modifier or a zero becomes a group of its own.  A token after a          *)
(* visibility that is not incomplete is never merged into it.               *)
(***************************************************************************)
\* a token of the body after another token of the body is saved by this step
BodySave == pc = "parse" /\ pc' = "loop" /\ Len(tokens) - HeaderLength >= 2

DigitToken(tok) == Len(tok) = 1 /\ tok[1] \in Digits

\* the visibility of one digit, as yet incomplete
IncompleteVisibility(tok) ==
    [kind |-> "VisibilityGroup",
     vis |-> [distModifier |-> "NONE", distValueInt |-> Some(DigitValue(tok[1])),
              distValueNum |-> None, distValueDen |-> None,
              distUnit |-> "STATUTE_MILES"],
     dir |-> Direction_default, incompleteInteger |-> TRUE]

\* the group is a fraction of statute miles without integer part
FractionOnly(group) ==
    /\ group.kind = "VisibilityGroup"
    /\ group.vis.distUnit = "STATUTE_MILES"
    /\ Distance_isFraction(group.vis)

\* the digit and the fraction have become one valid group
IntegerAndFraction(digit, fraction) ==
    /\ Len(ResultGroups') = Len(ResultGroups)
    /\ ResultGroups'[Len(ResultGroups')] =
          [IncompleteVisibility(digit) EXCEPT
              !.vis.distValueNum = fraction.vis.distValueNum,
              !.vis.distValueDen = fraction.vis.distValueDen,
              !.incompleteInteger = FALSE]
    /\ VisibilityGroup_isValid(ResultGroups'[Len(ResultGroups')])
    /\ extendedResult =>
          extresult'.extgroups[Len(extresult'.extgroups)][3] =
             digit \o <<" ">> \o groupString

DigitIsIncomplete ==
    (pc = "parse" /\ pc' = "loop" /\ Len(tokens) > HeaderLength
                  /\ DigitToken(groupString)) =>
        /\ ResultGroups' = Append(ResultGroups, IncompleteVisibility(groupString))
        /\ ~VisibilityGroup_isValid(IncompleteVisibility(groupString))

NothingAfterComplete ==
    (BodySave /\ ResultGroups[Len(ResultGroups)].kind = "VisibilityGroup"
              /\ ~ResultGroups[Len(ResultGroups)].incompleteInteger) =>
        ResultGroups' = Append(ResultGroups, LastParse'.group)

Accepting(str, part) ==
    {i \in 1..Len(GroupAlternatives) :
        /\ GroupAlternatives[i] # FallbackAlternative
        /\ HasValue(Alternative_parse(GroupAlternatives[i], str, part))}

FirstOf(acc) == CHOOSE i \in acc : \A j \in acc : i <= j

FirstAccepted(str, part, acc) ==
    IF acc = {} THEN PlainTextGroup(str)
    ELSE Value(Alternative_parse(GroupAlternatives[FirstOf(acc)], str, part))

DispatchedAs(group, str, part, acc) ==
    /\ group = FirstAccepted(str, part, acc)
    /\ group.kind = "PlainTextGroup" <=> acc = {}
    /\ acc # {} => group.kind = GroupAlternatives[FirstOf(acc)]

C20_FirstAccepting ==
    parseLog # <<>> =>
        DispatchedAs(LastParse.group, StripEnd(tokens[LastParse.token]),
                     LastParse.part,
                     Accepting(StripEnd(tokens[LastParse.token]), LastParse.part))

\* the same location code parsed in the header and in the body of a METAR
C20_Witness ==
    /\ Len(parseLog) = 4
    /\ tokens[2] = <<"K", "J", "F", "K">>
    /\ tokens[4] = tokens[2]
    /\ parseLog[2].part = "HEADER"
    /\ parseLog[2].group.kind = "LocationGroup"
    /\ parseLog[4].part = "METAR"
    /\ parseLog[4].group.kind = "PlainTextGroup"
    /\ Accepting(tokens[4], "METAR") = {}
    /\ Accepting(tokens[2], "HEADER") = {3}

(***************************************************************************)
(* C21: a group that is not valid does not fail the parse.  The error and   *)
(* the report type returned are those the state machine reaches from its    *)
(* initial status over the syntax categories of the groups parsed, in their *)
(* order, followed by the final transition; nothing else of the groups      *)
(* enters.                                                                  *)
(***************************************************************************)
\* the status after the categories of the first n passes
RECURSIVE StatusAfter(_)
StatusAfter(n) ==
    IF n = 0 THEN Status_init
    ELSE transition(StatusAfter(n - 1), getSyntaxGroup(parseLog[n].group))

C21_CategoriesDecide ==
    pc = "done" =>
        /\ Returned.error = finalTransition(StatusAfter(Len(parseLog))).error
        /\ Returned.reportType = finalTransition(StatusAfter(Len(parseLog))).reportType

\* a METAR without error whose last group, an incomplete visibility, is not valid
C21_Witness ==
    /\ pc = "done"
    /\ Returned.error = "NONE"
    /\ Returned.reportType = "METAR"
    /\ ResultGroups[Len(ResultGroups)].kind = "VisibilityGroup"
    /\ ~VisibilityGroup_isValid(ResultGroups[Len(ResultGroups)])

(***************************************************************************)
(* C22: Distance::fromIntegerAndFraction returns a value exactly when the   *)
(* first argument has an integer and no fraction, the second a fraction and *)
(* no integer, the units are the same, both modifiers are NONE, and neither *)
(* numerator nor denominator of the fraction is zero; the value is the      *)
(* integer with the numerator and denominator of the fraction.              *)
(***************************************************************************)
IntegerOnly(d) ==
    d.distValueInt # None /\ d.distValueNum = None /\ d.distValueDen = None

FractionOnlyDistance(d) ==
    d.distValueInt = None /\ d.distValueNum # None /\ d.distValueDen # None

\* the four conditions of the claim
Combinable(integer, fraction) ==
    /\ IntegerOnly(integer)
    /\ FractionOnlyDistance(fraction)
    /\ integer.distUnit = fraction.distUnit
    /\ integer.distModifier = "NONE" /\ fraction.distModifier = "NONE"

NamedFixedGroups == {"METAR", "SPECI", "TAF", "COR", "AMD", "NIL", "CNL", "RMK"}

\* a trend group with nothing but the two times of a span
BareTimeSpan(g) ==
    /\ g.kind = "TrendGroup"
    /\ g.t = "TIME_SPAN"
    /\ g.prob = "NONE"
    /\ g.tFrom # None /\ g.tTill # None /\ g.tAt = None

C23_SyntaxGroupOf ==
    pc = "return" =>
        LET g == args.group
        IN  /\ g.kind = "FixedGroup" /\ g.t \in NamedFixedGroups => ret = g.t
            /\ g.kind = "FixedGroup" /\ g.t = "MAINTENANCE_INDICATOR"
                  => ret = "MAINTENANCE_INDICATOR"
            /\ g.kind = "FixedGroup"
               /\ g.t \notin NamedFixedGroups \cup {"MAINTENANCE_INDICATOR"}
                  => ret = "OTHER"
            /\ g.kind = "LocationGroup" => ret = "LOCATION"
            /\ g.kind = "ReportTimeGroup" => ret = "REPORT_TIME"
            /\ BareTimeSpan(g) => ret = "TIME_SPAN"
            /\ g.kind = "TrendGroup" /\ ~BareTimeSpan(g) => ret = "OTHER"
            /\ g.kind \notin {"FixedGroup", "LocationGroup", "ReportTimeGroup",
                              "TrendGroup"} => ret = "OTHER"

\* C23 as stated: every fixed group but the eight named ones is OTHER
C23_OtherFixedGroupsAreOther ==
    pc = "return" /\ args.group.kind = "FixedGroup"
                  /\ args.group.t \notin NamedFixedGroups
        => ret = "OTHER"

\* a time span with a probability before it is not a bare time span
C23_Witness ==
    /\ pc = "return"
    /\ Len(args.strings) = 2
    /\ args.group.kind = "TrendGroup"
    /\ args.group.t = "TIME_SPAN"
    /\ args.group.prob = "PROB_30"
    /\ ret = "OTHER"

(***************************************************************************)
(* C24: at every point of a parse the report type agrees with the state:    *)
(* the states of the METAR body, the METAR remarks and the maintenance      *)
(* indicator occur only with type METAR, the states of the TAF body, the    *)
(* TAF remarks and CNL only with type TAF; and a type that is METAR or TAF  *)
(* stays what it is.                                                        *)
(***************************************************************************)
MetarStates == {"REPORT_BODY_BEGIN_METAR", "REPORT_BODY_BEGIN_METAR_REPEAT_PARSE",
                "REPORT_BODY_METAR", "REMARK_METAR", "MAINTENANCE_INDICATOR"}

TafStates == {"REPORT_BODY_BEGIN_TAF", "REPORT_BODY_TAF", "REMARK_TAF", "CNL"}

TypeAgreesWithState ==
    /\ status.state \in MetarStates => status.reportType = "METAR"
    /\ status.state \in TafStates => status.reportType = "TAF"

TypeKept ==
    status.reportType \in {"METAR", "TAF"} => status'.reportType = status.reportType

C24_TypeAgreesWithState == []TypeAgreesWithState /\ [][TypeKept]_vars

\* a report without a type keyword that became a METAR at its third token and
\* ended with the maintenance indicator
C24_Witness ==
    /\ pc = "done"
    /\ Len(parseLog) >= 4
    /\ parseLog[1].after.state = "REPORT_TIME"
    /\ parseLog[1].after.reportType = "UNKNOWN"
    /\ parseLog[3].after.state = "REPORT_BODY_BEGIN_METAR_REPEAT_PARSE"
    /\ parseLog[3].after.reportType = "METAR"
    /\ status.state = "MAINTENANCE_INDICATOR"
    /\ status.reportType = "METAR"

(***************************************************************************)
(* C25: when a token makes the status an error, the group parsed from that  *)
(* token is appended to the result as a group of its own, the groups saved  *)
(* before stay as they are, and parsing returns with that group as the last *)
(* group and that token as the last token read.                             *)
(***************************************************************************)
TokenMakesError ==
    pc = "parse" /\ status.state # "ERROR" /\ status'.state = "ERROR"

ErrorGroupAppended ==
    TokenMakesError =>
        /\ ResultGroups' = Append(ResultGroups, parseLog'[Len(parseLog')].group)
        /\ parseLog'[Len(parseLog')].group =
              GroupParser_parse(groupString, getReportPart(status))

ErrorGroupIsLast ==
    pc = "done" /\ parseLog # <<>> /\ parseLog[Len(parseLog)].after.state = "ERROR"
        => /\ ResultGroups # <<>>
           /\ ResultGroups[Len(ResultGroups)] = parseLog[Len(parseLog)].group
           /\ parseLog[Len(parseLog)].token = Len(tokens)

C25_ErrorGroupSaved == []ErrorGroupIsLast /\ [][ErrorGroupAppended]_vars

\* NIL in the body of a METAR after a group of plain text
C25_Witness ==
    /\ pc = "done"
    /\ Returned.error = "UNEXPECTED_NIL_OR_CNL_IN_REPORT_BODY"
    /\ Len(ResultGroups) >= 2
    /\ ResultGroups[Len(ResultGroups)] = [kind |-> "FixedGroup", t |-> "NIL"]
    /\ ResultGroups[Len(ResultGroups) - 1].kind \in {"PlainTextGroup", "VisibilityGroup"}

(***************************************************************************)
(* C26: in the extended result the report part stored with a group is the   *)
(* report part under which the token of the group was parsed, the token     *)
(* parsed twice included.  The part is read once before the do-while, so    *)
(* the group of the token parsed twice is stored with the part of its first *)
(* parse, HEADER, and not with the part of the parse that gave the group,   *)
(* METAR: the statement does not hold.                                      *)
(***************************************************************************)
LastStoredPart == extresult.extgroups[Len(extresult.extgroups)][2]

C26_StoredPartIsParsedPart ==
    extendedResult /\ pc \in {"loop", "done"} /\ parseLog # <<>>
        => LastStoredPart = parseLog[Len(parseLog)].part

\* KJFK 181830Z 3/4SM: the visibility group parsed under METAR is stored with
\* HEADER
C26_Witness ==
    /\ extendedResult
    /\ pc = "done"
    /\ Len(parseLog) = 4
    /\ parseLog[3].token = 3 /\ parseLog[4].token = 3
    /\ parseLog[3].part = "HEADER" /\ parseLog[3].group.kind = "PlainTextGroup"
    /\ parseLog[4].part = "METAR" /\ parseLog[4].group.kind = "VisibilityGroup"
    /\ extresult.extgroups[3][1] = parseLog[4].group
    /\ extresult.extgroups[3][2] = "HEADER"

(***************************************************************************)
(* C27: the do-while of parseInternal ends after at most two passes: a      *)
(* token is parsed at most twice, at most one token of a report is parsed   *)
(* twice, the status after the second parse of a token does not ask for     *)
(* another parse, and the second pass of a token is the one that saves its  *)
(* group and moves on to the next token.                                    *)
(***************************************************************************)
PassesOf(n) == {i \in 1..Len(parseLog) : parseLog[i].token = n}

ParsedTwiceTokens == {n \in 1..Len(tokens) : Cardinality(PassesOf(n)) >= 2}

AtMostTwice ==
    /\ \A n \in 1..Len(tokens) : Cardinality(PassesOf(n)) <= 2
    /\ Cardinality(ParsedTwiceTokens) <= 1
    /\ \A i \in 1..Len(parseLog) :
          isReparseRequired(parseLog[i].after)
              => /\ ~isReparseRequired(parseLog[i].before)
                 /\ i < Len(parseLog) => ~isReparseRequired(parseLog[i + 1].after)

SecondPassEnds ==
    pc = "parse" /\ PassesOf(Len(tokens)) # {} /\ parseLog' # parseLog
        => /\ pc' = "loop"
           /\ ~isReparseRequired(status')
           /\ Len(ResultGroups') = Len(ResultGroups) + 1
              \/ combines' = combines + 1

C27_ReparseTerminates == []AtMostTwice /\ [][SecondPassEnds]_vars

\* a report in which the third token was parsed twice and two more tokens once
C27_Witness ==
    /\ pc = "done"
    /\ Len(tokens) = 5
    /\ ParsedTwiceTokens = {3}
    /\ Len(parseLog) = 6

(***************************************************************************)
(* C28: in every trend group got by parsing a token and combining it with   *)
(* the groups of the tokens after it, a time 'at' never stands with a time  *)
(* 'from' or 'till'; a combine leaves every time that was set as it was;    *)
(* and a token whose time names a slot that is set, or would put 'at' next  *)
(* to 'from' or 'till', is not merged: its group is saved as a group of its *)
(* own.                                                                     *)
(***************************************************************************)
AtStandsAlone(g) == g.tAt # None => g.tFrom = None /\ g.tTill = None

\* the time of nextGroup names a slot that g has set, or mixes 'at' with
\* 'from' or 'till'
BreaksTimeRule(g, nextGroup) ==
    \/ g.tFrom # None /\ nextGroup.tFrom # None
    \/ g.tTill # None /\ nextGroup.tTill # None
    \/ g.tAt # None /\ nextGroup.tAt # None
    \/ g.tAt # None /\ (nextGroup.tFrom # None \/ nextGroup.tTill # None)
    \/ nextGroup.tAt # None /\ (g.tFrom # None \/ g.tTill # None)

LastTrend == ret.groups[Len(ret.groups)]

TrendStep ==
    ret.groups # <<>> /\ ret'.groups # ret.groups =>
        LET nextGroup == Value(TrendGroup_parse(args'.strings[Len(args'.strings)],
                                                args.part))
        IN  /\ Len(ret'.groups) = Len(ret.groups)
                => /\ LastTrend.tFrom # None => LastTrend'.tFrom = LastTrend.tFrom
                   /\ LastTrend.tTill # None => LastTrend'.tTill = LastTrend.tTill
                   /\ LastTrend.tAt # None => LastTrend'.tAt = LastTrend.tAt
                   /\ LastTrend'.tFrom \in {LastTrend.tFrom, nextGroup.tFrom}
                   /\ LastTrend'.tTill \in {LastTrend.tTill, nextGroup.tTill}
                   /\ LastTrend'.tAt \in {LastTrend.tAt, nextGroup.tAt}
            /\ BreaksTimeRule(LastTrend, nextGroup)
                => ret'.groups = Append(ret.groups, nextGroup)

C28_TrendTimes ==
    /\ [](\A i \in 1..Len(ret.groups) : AtStandsAlone(ret.groups[i]))
    /\ [][TrendStep]_vars

\* BECMG FM1200 AT1400: the time 'at' is not merged into the group that has a
\* time 'from'
C28_Witness ==
    /\ Len(args.strings) = 3
    /\ Len(ret.groups) = 2
    /\ ret.groups[1].t = "BECMG"
    /\ ret.groups[1].tFrom # None /\ ret.groups[1].tAt = None
    /\ ret.groups[2].t = "NONE"
    /\ ret.groups[2].tAt # None

(***************************************************************************)
(* C29: a parse that returns error NONE has exactly one location group in   *)
(* its result, and the groups before it are fixed groups of a report type   *)
(* (METAR, SPECI, TAF) or of COR or AMD: every report time, time span and   *)
(* group of the body comes after the location.                              *)
(***************************************************************************)
LocationsOf(groups) == {i \in 1..Len(groups) : groups[i].kind = "LocationGroup"}

OneLocationFirst(groups) ==
    /\ Cardinality(LocationsOf(groups)) = 1
    /\ \A i \in LocationsOf(groups) :
          /\ i <= 3
          /\ \A j \in 1..(i - 1) :
                /\ groups[j].kind = "FixedGroup"
                /\ groups[j].t \in {"METAR", "SPECI", "TAF", "COR", "AMD"}

C29_OneLocation ==
    [](pc = "done" /\ Returned.error = "NONE" => OneLocationFirst(ResultGroups))

\* KJFK 181830Z KJFK: the second KJFK is read in the body of a METAR and is
\* no location
C29_Witness ==
    /\ pc = "done"
    /\ Returned.error = "NONE"
    /\ Len(tokens) >= 3
    /\ StripEnd(tokens[1]) = StripEnd(tokens[3])
    /\ ResultGroups[1].kind = "LocationGroup"
    /\ ResultGroups[3].kind = "PlainTextGroup"

(***************************************************************************)
(* C30: for every wind speed and gust speed from 0 to 999, a wind group     *)
(* whose direction, sector and wind shear height are valid is not valid     *)
(* exactly when gust and wind speed are both reported and the wind speed is *)
(* not below the gust speed, or the reported gust speed is zero, or the     *)
(* reported wind shear height is zero.  isValid compares the wind speed     *)
(* with 999 where no gust is reported, so a wind speed of 999 without a     *)
(* gust is not valid: the statement does not hold.                          *)
(***************************************************************************)
WindComponentsValid(g) ==
    /\ Direction_isValid(g.windDir)
    /\ Direction_isValid(g.vsecBegin)
    /\ Direction_isValid(g.vsecEnd)
    /\ Distance_isValid(g.wShHeight)

WindRuleBroken(w) ==
    \/ HasValue(w.wind) /\ HasValue(w.gust) /\ Value(w.wind) >= Value(w.gust)
    \/ HasValue(w.gust) /\ Value(w.gust) = 0
    \/ HasValue(w.height) /\ Value(w.height) = <<"0", "0", "0">>

C30_InvalidExactlyWhen ==
    pc = "return" /\ HasValue(ret.group) /\ WindComponentsValid(Value(ret.group))
        => (~ret.valid <=> WindRuleBroken(args))

\* VRB999KT: a wind speed of 999 and no gust
C30_Witness ==
    /\ pc = "return"
    /\ args = [height |-> None, dir |-> <<"V", "R", "B">>,
               wind |-> Some(MaxSpeed), gust |-> None]
    /\ HasValue(ret.group)
    /\ Value(ret.group).wSpeed.speedValue = Some(MaxSpeed)
    /\ Value(ret.group).gSpeed.speedValue = None
    /\ WindComponentsValid(Value(ret.group))
    /\ ~ret.valid

====
